---- MODULE Spec2Model ----
(***************************************************************************)
(* SmartFill.AI (autofill.py and its bridges): the context classifier, the *)
(* content resolver, the profile store and the configuration store.        *)
(*                                                                         *)
(* Python strings are TLA+ strings.  A character outside ASCII is written  *)
(* as one token "{uXXXX}" (lower-case hex code point): str.lower() leaves  *)
(* such a character unchanged and, the braces delimiting each token,       *)
(* substring containment between two written strings is containment        *)
(* between the originals.                                                  *)
(***************************************************************************)
EXTENDS Integers, Sequences, FiniteSets, TLC

VARIABLES
    profile,      \* UserProfile.data of the profile the resolver reads
    snap,         \* accessibility_info of the current trigger
    analysis,     \* outcome of the last analyze_context call
    content,      \* outcome of the last generate_content call
    llmCalls,     \* LLMManager.generate_text calls issued in the current trigger
    llmEnv,       \* the LLMManager of the current trigger: provider, client, backend
    bridgeOut,    \* return value of the last autofill_bridge.process_context
    bridgeRun,    \* the bridge script run by the current trigger and its stdout
    llmContext,   \* profile summary generate_content handed to generate_text
    ui,           \* what trigger_smart_fill showed the user and wrote into the field
    phase,        \* position of the current trigger
    keyFile,      \* contents of ENCRYPTION_KEY_FILE
    nextKey,      \* source of fresh keys (Fernet.generate_key)
    profFile,     \* contents of the profile file of the profile id in use
    inst,         \* the live UserProfile instance
    saved,        \* data held by the instance at its last successful save()
    config,       \* ConfigManager.config
    configFile,   \* contents of CONFIG_FILE
    keyring,      \* the OS credential store: service name -> password
    lastOp        \* the last store operation and its result

vars == <<profile, snap, analysis, content, llmCalls, llmEnv, bridgeOut, bridgeRun,
          llmContext, ui, phase,
          keyFile, nextKey, profFile, inst, saved,
          config, configFile, keyring, lastOp>>

fillVars == <<profile, snap, analysis, content, llmCalls, llmEnv, bridgeOut, bridgeRun,
             llmContext, ui, phase>>
profileVars == <<keyFile, nextKey, profFile, inst, saved>>
configVars == <<config, configFile, keyring>>

-----------------------------------------------------------------------------
(* Python values and outcomes of calls *)

None == [t |-> "none"]
\* A key the mapping does not hold; a file, object or argument that is not there.
Absent == [t |-> "absent"]
Str(s) == [t |-> "str", v |-> s]
Bool(b) == [t |-> "bool", v |-> b]
Dict(f) == [t |-> "dict", v |-> f]
List(q) == [t |-> "list", v |-> q]
EmptyDict == Dict(<<>>)

\* bool(x)
Truthy(x) ==
    CASE x.t = "none" -> FALSE
      [] x.t = "str" -> x.v # ""
      [] x.t = "bool" -> x.v
      [] x.t = "dict" -> DOMAIN x.v # {}
      [] x.t = "list" -> x.v # <<>>

\* a or b
PyOr(a, b) == IF Truthy(a) THEN a ELSE b

\* d.get(k, dflt) on a mapping held as a TLA+ function
DictGet(f, k, dflt) == IF k \in DOMAIN f THEN f[k] ELSE dflt

Ret(v) == [kind |-> "return", value |-> v]
Raise(e) == [kind |-> "raise", exc |-> e]
NoResult == [kind |-> "none"]

-----------------------------------------------------------------------------
(* str operations *)

UpperChars == <<"A","B","C","D","E","F","G","H","I","J","K","L","M",
                "N","O","P","Q","R","S","T","U","V","W","X","Y","Z">>
LowerChars == <<"a","b","c","d","e","f","g","h","i","j","k","l","m",
                "n","o","p","q","r","s","t","u","v","w","x","y","z">>

LowerChar(c) ==
    IF \E i \in 1..26 : UpperChars[i] = c
    THEN LowerChars[CHOOSE i \in 1..26 : UpperChars[i] = c]
    ELSE c

RECURSIVE Lower(_)
\* s.lower()
Lower(s) == IF s = "" THEN "" ELSE LowerChar(SubSeq(s, 1, 1)) \o Lower(Tail(s))

\* kw in s
Contains(s, kw) ==
    \E i \in 1..(Len(s) - Len(kw) + 1) : SubSeq(s, i, i + Len(kw) - 1) = kw

\* any(kw in s for kw in kws)
AnyIn(kws, s) == \E kw \in kws : Contains(s, kw)

SurroundingLimit == 500

\* s[:n]
Prefix(s, n) == IF Len(s) <= n THEN s ELSE SubSeq(s, 1, n)

-----------------------------------------------------------------------------
(* ContextAnalyzer._default_analysis *)

DefaultAnalysis(field_label) ==
    [content_type |-> "Unknown",
     field_type |-> IF field_label # "Unknown" THEN field_label ELSE "Generic Text",
     recommended_style |-> "Professional",
     recommended_length |-> "Medium"]

\* The dict display {k1: v1, ..., **spread}: entries are taken left to right
\* and a later entry replaces an earlier one with the same key.
DictDisplay(explicit, spread) == spread @@ explicit

ResumeKeywords ==
    {"resume", "cv", "curriculum vitae", "job application",
     "{u804c}{u4f4d}", "{u7b80}{u5386}", "{u6c42}{u804c}", "{u5e94}{u8058}"}

\* One record per `if` of _simple_field_analysis, in source order.
\*   label, role : keyword sets tested against label_lower, role_lower ({} = not tested)
\*   resume      : the rule needs resume_context
\*   ft          : the "field_type" entry written in the rule's dict display
\*   ct          : <<>>, or <<content type under resume_context, content type otherwise>>
\*   len, style  : the written recommended_length / recommended_style ("" = not written)
\*   spread      : the display ends with **self._default_analysis(label)
Rule(label, role, resume, ft, ct, len, style, spread) ==
    [label |-> label, role |-> role, resume |-> resume, ft |-> ft, ct |-> ct,
     len |-> len, style |-> style, spread |-> spread]

ContactRule(label, ft, other) ==
    Rule(label, {}, FALSE, ft, <<"Resume Form", other>>, "", "", TRUE)
ResumeRule(label, ft, len) ==
    Rule(label, {}, FALSE, ft, <<"Resume Form", "Resume Form">>, len, "Professional", FALSE)

Rules == <<
    ContactRule({"email", "e-mail", "mail address", "{u90ae}{u7bb1}",
                 "{u7535}{u5b50}{u90ae}{u4ef6}", "{u8054}{u7cfb}{u90ae}{u7bb1}"},
                "Email Address", "Contact Information"),
    ContactRule({"phone", "mobile", "contact number", "{u7535}{u8bdd}", "{u624b}{u673a}",
                 "{u8054}{u7cfb}{u7535}{u8bdd}", "{u8054}{u7cfb}{u65b9}{u5f0f}"},
                "Phone Number", "Contact Information"),
    ContactRule({"name", "full name", "your name", "{u59d3}{u540d}", "{u5168}{u540d}"},
                "Full Name", "Personal Information"),
    ContactRule({"address", "street", "{u5730}{u5740}", "{u8857}{u9053}", "{u4f4f}{u5740}"},
                "Street Address", "Contact Information"),
    ContactRule({"city", "{u57ce}{u5e02}"}, "City", "Contact Information"),
    ContactRule({"state", "province", "{u7701}{u4efd}", "{u5dde}"},
                "State/Province", "Contact Information"),
    ContactRule({"zip", "postal code", "{u90ae}{u7f16}", "{u90ae}{u653f}{u7f16}{u7801}"},
                "Zip/Postal Code", "Contact Information"),
    ContactRule({"country", "{u56fd}{u5bb6}"}, "Country", "Contact Information"),
    ResumeRule({"education", "school", "university", "college", "degree",
                "{u5b66}{u5386}", "{u6559}{u80b2}", "{u5b66}{u6821}", "{u5927}{u5b66}"},
               "Education", "Medium"),
    ResumeRule({"experience", "work history", "employment",
                "{u5de5}{u4f5c}{u7ecf}{u5386}", "{u5de5}{u4f5c}{u7ecf}{u9a8c}",
                "{u804c}{u4e1a}{u7ecf}{u5386}"},
               "Work Experience", "Long"),
    ResumeRule({"skills", "abilities", "{u6280}{u80fd}", "{u80fd}{u529b}", "{u4e13}{u957f}"},
               "Skills", "Medium"),
    ResumeRule({"summary", "profile", "objective", "{u4e2a}{u4eba}{u7b80}{u4ecb}",
                "{u81ea}{u6211}{u4ecb}{u7ecd}", "{u6c42}{u804c}{u76ee}{u6807}"},
               "Profile Summary", "Medium"),
    ResumeRule({"projects", "portfolio", "{u9879}{u76ee}{u7ecf}{u9a8c}", "{u4f5c}{u54c1}{u96c6}"},
               "Projects", "Medium"),
    ResumeRule({"achievements", "awards", "honors", "{u6210}{u5c31}", "{u5956}{u9879}",
                "{u8363}{u8a89}"},
               "Achievements", "Medium"),
    ResumeRule({"languages", "{u8bed}{u8a00}", "{u5916}{u8bed}"}, "Languages", "Short"),
    ResumeRule({"certifications", "licenses", "{u8bc1}{u4e66}", "{u8ba4}{u8bc1}",
                "{u6267}{u7167}"},
               "Certifications", "Medium"),
    ResumeRule({"references", "{u63a8}{u8350}{u4eba}", "{u63a8}{u8350}{u4fe1}"},
               "References", "Medium"),
    Rule({"password", "secret", "{u5bc6}{u7801}"}, {}, FALSE, "Password", <<>>, "", "", TRUE),
    Rule({"search", "find", "{u641c}{u7d22}", "{u67e5}{u627e}"}, {}, FALSE,
         "Search Query", <<>>, "", "", TRUE),
    Rule({"subject", "{u4e3b}{u9898}"}, {}, FALSE, "Email Subject",
         <<"Email Composition", "Email Composition">>, "", "", TRUE),
    Rule({"company", "organization", "{u516c}{u53f8}", "{u7ec4}{u7ec7}"}, {}, FALSE,
         "Company Name", <<"Resume Form", "Professional Information">>, "", "", TRUE),
    Rule({"job title", "position", "role", "{u804c}{u4f4d}", "{u804c}{u79f0}", "{u89d2}{u8272}"},
         {}, FALSE, "Job Title", <<"Resume Form", "Professional Information">>, "", "", TRUE),
    Rule({"comment", "message", "body", "{u8bc4}{u8bba}", "{u7559}{u8a00}", "{u6b63}{u6587}"},
         {"text area"}, FALSE, "Message Body", <<>>, "", "", TRUE),
    Rule({}, {"password"}, FALSE, "Password", <<>>, "", "", TRUE),
    Rule({}, {"search"}, FALSE, "Search Query", <<>>, "", "", TRUE),
    Rule({}, {}, TRUE, "Resume Field", <<"Resume Form", "Resume Form">>, "", "", TRUE)
>>

\* The rules up to "country": the contact fields.
LastContactRule == 8

RuleMatches(r, label_lower, role_lower, resume_context) ==
    /\ r.label # {} => AnyIn(r.label, label_lower)
    /\ r.role # {} => AnyIn(r.role, role_lower)
    /\ r.resume => resume_context

\* The entries written before any ** in the rule's dict display.
RuleExplicit(r, resume_context) ==
    [field_type |-> r.ft]
    @@ (IF r.ct = <<>> THEN <<>>
        ELSE [content_type |-> IF resume_context THEN r.ct[1] ELSE r.ct[2]])
    @@ (IF r.len = "" THEN <<>> ELSE [recommended_length |-> r.len])
    @@ (IF r.style = "" THEN <<>> ELSE [recommended_style |-> r.style])

RuleResult(r, label, resume_context) ==
    IF r.spread
    THEN DictDisplay(RuleExplicit(r, resume_context), DefaultAnalysis(label))
    ELSE RuleExplicit(r, resume_context)

\* ContextAnalyzer._simple_field_analysis: the first matching rule's dict, or None.
SimpleFieldAnalysis(label, role, text) ==
    LET label_lower == IF label # "" THEN Lower(label) ELSE ""
        role_lower == IF role # "" THEN Lower(role) ELSE ""
        text_lower == IF text # "" THEN Lower(text) ELSE ""
        resume_context == AnyIn(ResumeKeywords, text_lower)
        hits == {i \in 1..Len(Rules) :
                    RuleMatches(Rules[i], label_lower, role_lower, resume_context)}
    IN  IF hits = {} THEN None
        ELSE LET first == CHOOSE i \in hits : \A j \in hits : i <= j
             IN  Dict(RuleResult(Rules[first], label, resume_context))

-----------------------------------------------------------------------------
(* LLMManager.generate_text *)

\* The completion environment of one call: the configured provider, whether
\* _setup_client left a client, and what the backend does with a request.
Providers == {"openai", "ollama", "none"}
BackendOutcomes ==
    {"text", "bullet", "empty", "json", "json_partial", "json_bad",
     "auth", "ratelimit", "timeout"}
TextOutcomes == {"text", "bullet", "empty", "json", "json_partial", "json_bad"}
LLMEnvs == [provider : Providers, client : BOOLEAN, backend : BackendOutcomes]

\* Line 748 reads the local name `model` in the expression whose value is
\* assigned to it: the name is local to generate_text and is unbound there.
LocalModelBound == FALSE

JsonFull ==
    "Here: {\"content_type\": \"Website Login\", \"field_type\": \"Username\", "
    \o "\"recommended_style\": \"Concise\", \"recommended_length\": \"Short\"}"
JsonPartial == "{\"field_type\": \"Username\"}"
JsonBad == "{field_type: Username}"

BackendText(b) ==
    CASE b = "text" -> "Generated text"
      [] b = "bullet" -> " - Generated text"
      [] b = "empty" -> ""
      [] b = "json" -> JsonFull
      [] b = "json_partial" -> JsonPartial
      [] b = "json_bad" -> JsonBad

\* The body of generate_text below the reads of the configuration.
GenerateTextBody(llm, prompt) ==
    IF llm.provider = "none" THEN Ret("LLM is disabled.")
    ELSE IF prompt = "" THEN Ret("")
    ELSE IF llm.provider = "openai" THEN
        IF ~llm.client THEN Ret("Error: OpenAI client not initialized. Check API key.")
        ELSE CASE llm.backend \in TextOutcomes -> Ret(BackendText(llm.backend))
               [] llm.backend = "auth" -> Ret("Error: Invalid OpenAI API Key.")
               [] llm.backend = "ratelimit" ->
                    Ret("Error: OpenAI rate limit exceeded. Please try again later.")
               [] llm.backend = "timeout" -> Ret("Error generating text: Request timed out.")
    ELSE IF llm.provider = "ollama" THEN
        CASE llm.backend \in TextOutcomes -> Ret(BackendText(llm.backend))
          [] llm.backend \in {"auth", "ratelimit", "timeout"} ->
                Ret("Error connecting to Ollama: request failed")
    ELSE Ret("Error: Unsupported LLM provider")

\* generate_text with line 748 reading a name that is bound
GenerateTextBound(llm, prompt) == GenerateTextBody(llm, prompt)

GenerateText(llm, prompt) ==
    IF ~LocalModelBound THEN Raise("UnboundLocalError")
    ELSE GenerateTextBody(llm, prompt)

-----------------------------------------------------------------------------
(* ContextAnalyzer.analyze_context *)

AnalysisKeys == {"content_type", "field_type", "recommended_style", "recommended_length"}

\* json.loads of the first "{...}" re.search finds in the returned string:
\* None when there is none, a mapping, or "invalid" (json.JSONDecodeError).
JsonObjectIn(result_str) ==
    IF ~(Contains(result_str, "{") /\ Contains(result_str, "}")) THEN None
    ELSE IF result_str = JsonFull
         THEN Dict([content_type |-> "Website Login", field_type |-> "Username",
                    recommended_style |-> "Concise", recommended_length |-> "Short"])
    ELSE IF result_str = JsonPartial THEN Dict([field_type |-> "Username"])
    ELSE Str("invalid")

\* Lines 916-948: what analyze_context does with the string generate_text returned.
ParseAnalysis(result_str, field_label) ==
    LET analysis_ == JsonObjectIn(result_str)
    IN  IF analysis_.t = "dict" /\ AnalysisKeys \subseteq DOMAIN analysis_.v
        THEN Ret(analysis_.v)
        ELSE Ret(DefaultAnalysis(field_label))

\* The model-backed pass with no `except` around it
LLMAnalysisUncaught(llm, field_label) ==
    LET r == GenerateText(llm, "analysis prompt")
    IN  IF r.kind = "raise" THEN r ELSE ParseAnalysis(r.value, field_label)

\* The model-backed pass (lines 889-951): one generate_text call inside try.
LLMAnalysis(llm, field_label) ==
    LET r == GenerateText(llm, "analysis prompt")
    IN  IF r.kind = "raise" THEN Ret(DefaultAnalysis(field_label))
        ELSE ParseAnalysis(r.value, field_label)

\* analyze_context with the model-backed pass run whether or not a rule matched.
AnalyzeContextModelFirst(info, llm) ==
    LET field_label == PyOr(PyOr(DictGet(info, "title", None),
                                 DictGet(info, "placeholder", None)), Str("Unknown"))
        st == DictGet(info, "surrounding_text", Str(""))
    IN  IF st.t # "str" THEN [out |-> Raise("TypeError"), calls |-> 0]
        ELSE [out |-> LLMAnalysis(llm, field_label.v), calls |-> 1]

\* [out |-> the call's outcome, calls |-> generate_text calls it issued]
AnalyzeContext(info, llm) ==
    LET field_label == PyOr(PyOr(DictGet(info, "title", None),
                                 DictGet(info, "placeholder", None)), Str("Unknown"))
        field_role == PyOr(PyOr(DictGet(info, "role_description", None),
                                DictGet(info, "role", None)), Str("Unknown"))
        st == DictGet(info, "surrounding_text", Str(""))
    IN  IF st.t # "str" THEN [out |-> Raise("TypeError"), calls |-> 0]
        ELSE LET simple_analysis ==
                     SimpleFieldAnalysis(field_label.v, field_role.v,
                                         Prefix(st.v, SurroundingLimit))
             IN  IF Truthy(simple_analysis)
                 THEN [out |-> Ret(simple_analysis.v), calls |-> 0]
                 ELSE [out |-> LLMAnalysis(llm, field_label.v), calls |-> 1]

-----------------------------------------------------------------------------
(* UserProfile.get_value and the formatting helpers of generate_content *)

\* self.data.get(section, {}).get(key, None): `.get` exists on a mapping only.
GetValue(data, section, key) ==
    LET sec == DictGet(data, section, EmptyDict)
    IN  IF sec.t # "dict" THEN Raise("AttributeError")
        ELSE Ret(IF key.t = "str" /\ key.v \in DOMAIN sec.v THEN sec.v[key.v] ELSE None)

RECURSIVE Join(_, _)
\* sep.join(parts)
Join(parts, sep) ==
    IF parts = <<>> THEN ""
    ELSE IF Len(parts) = 1 THEN parts[1]
    ELSE parts[1] \o sep \o Join(Tail(parts), sep)

RECURSIVE Repr(_)
\* repr(x) of None, a bool, a str without quotes in it, or a list of these
Repr(x) ==
    CASE x.t = "str" -> "'" \o x.v \o "'"
      [] x.t = "none" -> "None"
      [] x.t = "bool" -> IF x.v THEN "True" ELSE "False"
      [] x.t = "list" -> "[" \o Join([i \in 1..Len(x.v) |-> Repr(x.v[i])], ", ") \o "]"

\* str(x), as an f-string field writes it
ToStr(x) == IF x.t = "str" THEN x.v ELSE Repr(x)

\* f"{d.get(k, '')}" for an entry d (a mapping)
Field(d, k) == ToStr(DictGet(d.v, k, Str("")))

UpperChar(c) ==
    IF \E i \in 1..26 : LowerChars[i] = c
    THEN UpperChars[CHOOSE i \in 1..26 : LowerChars[i] = c]
    ELSE c

IsLetter(c) == \E i \in 1..26 : UpperChars[i] = c \/ LowerChars[i] = c

RECURSIVE TitleFrom(_, _)
TitleFrom(s, prevCased) ==
    IF s = "" THEN ""
    ELSE LET c == SubSeq(s, 1, 1)
         IN  (IF prevCased THEN LowerChar(c) ELSE UpperChar(c))
             \o TitleFrom(Tail(s), IsLetter(c))

\* s.title()
Title(s) == TitleFrom(s, FALSE)

RECURSIVE Replace(_, _, _)
\* s.replace(a, b) for a single character a
Replace(s, a, b) ==
    IF s = "" THEN ""
    ELSE (IF SubSeq(s, 1, 1) = a THEN b ELSE SubSeq(s, 1, 1)) \o Replace(Tail(s), a, b)

Bullet == "{u2022}"

\* ["<bullet> h" for h in highlights]
BulletLines(highlights) == [i \in 1..Len(highlights) |-> Bullet \o " " \o ToStr(highlights[i])]

\* The order in which a skills mapping yields its categories (insertion order).
SkillOrder == <<"ai_frameworks", "hardware", "certifications", "achievements">>

EducationEntry(edu) ==
    Field(edu, "school") \o ", " \o Field(edu, "degree") \o " in " \o Field(edu, "major")
    \o " (" \o Field(edu, "period") \o ")"

WorkEntry(job) ==
    LET highlights == DictGet(job.v, "highlights", List(<<>>))
    IN  Field(job, "title") \o " at " \o Field(job, "company")
        \o " (" \o Field(job, "period") \o ")\n"
        \o (IF Truthy(highlights) THEN Join(BulletLines(highlights.v), "\n") ELSE "")

ProjectEntry(project) ==
    LET highlights == DictGet(project.v, "highlights", List(<<>>))
    IN  Field(project, "name") \o "\n"
        \o (IF "description" \in DOMAIN project.v
            THEN Field(project, "description") \o "\n" ELSE "")
        \o (IF "achievement" \in DOMAIN project.v
            THEN "Achievement: " \o Field(project, "achievement") \o "\n" ELSE "")
        \o (IF Truthy(highlights) THEN Join(BulletLines(highlights.v), "\n") ELSE "")

\* The categories of a skills mapping that hold a non-empty list, in order.
FilledCategories(skills) ==
    SelectSeq(SkillOrder,
              LAMBDA c : c \in DOMAIN skills /\ skills[c].t = "list" /\ skills[c].v # <<>>)

StrsOf(q) == [i \in 1..Len(q) |-> ToStr(q[i])]

SkillLine(skills, c) ==
    Title(Replace(c, "_", " ")) \o ": " \o Join(StrsOf(skills[c].v), ", ")

FormatSkills(skills) ==
    LET cats == FilledCategories(skills)
    IN  Join([i \in 1..Len(cats) |-> SkillLine(skills, cats[i])], "\n")

RECURSIVE KeySkills(_, _)
\* key_skills: the first three skills of each filled category, in order
KeySkills(skills, cats) ==
    IF cats = <<>> THEN <<>>
    ELSE LET l == StrsOf(skills[cats[1]].v)
         IN  (IF Len(l) <= 3 THEN l ELSE SubSeq(l, 1, 3)) \o KeySkills(skills, Tail(cats))

\* Lines 1362-1393: ". ".join(summary_parts)
SummaryValue(basic_info, work_exp, skills_data) ==
    LET name == ToStr(DictGet(basic_info, "name", Str("")))
        location == ToStr(DictGet(basic_info, "location", Str("")))
        recent_title == IF work_exp # <<>> THEN Field(work_exp[1], "title") ELSE ""
        recent_company == IF work_exp # <<>> THEN Field(work_exp[1], "company") ELSE ""
        ks == KeySkills(skills_data, FilledCategories(skills_data))
        key_skills == IF Len(ks) <= 5 THEN ks ELSE SubSeq(ks, 1, 5)
        parts == (IF name # "" THEN <<name>> ELSE <<>>)
                 \o (IF recent_title # "" /\ recent_company # ""
                     THEN <<recent_title \o " at " \o recent_company>>
                     ELSE IF recent_title # "" THEN <<recent_title>> ELSE <<>>)
                 \o (IF location # "" THEN <<"Based in " \o location>> ELSE <<>>)
                 \o (IF key_skills # <<>>
                     THEN <<"Skilled in " \o Join(key_skills, ", ")>> ELSE <<>>)
    IN  Join(parts, ". ")

IsWs(c) == c \in {" ", "\n", "\t"}

RECURSIVE SkipWs(_)
SkipWs(s) == IF s # "" /\ IsWs(SubSeq(s, 1, 1)) THEN SkipWs(Tail(s)) ELSE s

RECURSIVE RStrip(_)
RStrip(s) ==
    IF s # "" /\ IsWs(SubSeq(s, Len(s), Len(s)))
    THEN RStrip(SubSeq(s, 1, Len(s) - 1)) ELSE s

\* s.strip()
Strip(s) == RStrip(SkipWs(s))

\* re.sub(r"^\s*[\*\-]\s+", "", s)
StripMarker(s) ==
    LET a == SkipWs(s)
    IN  IF Len(a) >= 2 /\ SubSeq(a, 1, 1) \in {"*", "-"} /\ IsWs(SubSeq(a, 2, 2))
        THEN SkipWs(Tail(a))
        ELSE s

-----------------------------------------------------------------------------
(* UserProfile.get_profile_summary *)

\* s.capitalize()
Capitalize(s) == IF s = "" THEN "" ELSE UpperChar(SubSeq(s, 1, 1)) \o Lower(Tail(s))

\* "".join(parts)
Concat(parts) == Join(parts, "")

\* d.get(k) is truthy, for an entry d (a mapping)
Has(d, k) == Truthy(DictGet(d.v, k, None))

\* any(v for v in d.values() if v and not isinstance(v, list))
AnyScalar(d) == \E k \in DOMAIN d.v : Truthy(d.v[k]) /\ d.v[k].t # "list"

\* The order in which the basic mapping yields its keys (insertion order).
BasicOrder == <<"name", "gender", "birth_year", "email", "phone", "location">>

\* "  <Label>: <value>\n"
SummaryLine(key, text) == "  " \o Capitalize(Replace(key, "_", " ")) \o ": " \o text \o "\n"

\* ["    - h\n" for h in highlights]
DashLines(d) ==
    IF Has(d, "highlights")
    THEN Concat([i \in 1..Len(d.v.highlights.v) |->
                   "    - " \o ToStr(d.v.highlights.v[i]) \o "\n"])
    ELSE ""

\* Lines 350-354
BasicSummary(data) ==
    IF "basic" \notin DOMAIN data THEN ""
    ELSE LET keys == SelectSeq(BasicOrder, LAMBDA k : k \in DOMAIN data.basic.v
                                                     /\ Truthy(data.basic.v[k]))
         IN  "\nBasic Information:\n"
             \o Concat([i \in 1..Len(keys) |->
                          SummaryLine(keys[i], ToStr(data.basic.v[keys[i]]))])

\* Lines 360-364
EducationSummaryLine(edu) ==
    IF \E k \in DOMAIN edu.v : Truthy(edu.v[k])
    THEN "  " \o Field(edu, "school") \o " - " \o Field(edu, "degree") \o " in "
         \o Field(edu, "major")
         \o (IF Has(edu, "period") THEN " (" \o Field(edu, "period") \o ")" ELSE "")
         \o "\n"
    ELSE ""

\* Lines 370-379
JobSummaryLines(job) ==
    IF AnyScalar(job)
    THEN "  " \o Field(job, "title") \o " at " \o Field(job, "company")
         \o (IF Has(job, "period") THEN " (" \o Field(job, "period") \o ")" ELSE "")
         \o "\n" \o DashLines(job)
    ELSE ""

\* Lines 397-408
ProjectSummaryLines(project) ==
    IF AnyScalar(project)
    THEN "  " \o Field(project, "name") \o "\n"
         \o (IF Has(project, "description")
             THEN "    " \o Field(project, "description") \o "\n" ELSE "")
         \o (IF Has(project, "achievement")
             THEN "    Achievement: " \o Field(project, "achievement") \o "\n" ELSE "")
         \o DashLines(project)
    ELSE ""

\* Lines 385-392
SkillSummaryLine(skills, c) ==
    IF ~Truthy(skills[c]) THEN ""
    ELSE IF skills[c].t = "list" THEN SummaryLine(c, Join(StrsOf(skills[c].v), ", "))
    ELSE SummaryLine(c, ToStr(skills[c]))

\* Lines 382-392
SkillsSummary(data) ==
    IF "skills" \in DOMAIN data /\ Truthy(data.skills)
    THEN LET cats == SelectSeq(SkillOrder, LAMBDA c : c \in DOMAIN data.skills.v)
         IN  "\nSkills:\n"
             \o Concat([i \in 1..Len(cats) |-> SkillSummaryLine(data.skills.v, cats[i])])
    ELSE ""

\* Lines 415-420
PortfolioProjectLines(proj) ==
    IF Has(proj, "name") /\ Has(proj, "url")
    THEN "  " \o Field(proj, "name") \o ": " \o Field(proj, "url") \o "\n"
         \o (IF Has(proj, "description")
             THEN "    " \o Field(proj, "description") \o "\n" ELSE "")
    ELSE ""

\* Lines 411-420
PortfolioSummary(data) ==
    IF "portfolio" \in DOMAIN data /\ Truthy(data.portfolio)
    THEN "\nPortfolio:\n"
         \o (IF Has(data.portfolio, "personal_website")
             THEN "  Website: " \o Field(data.portfolio, "personal_website") \o "\n"
             ELSE "")
         \o (IF Has(data.portfolio, "projects")
             THEN Concat([i \in 1..Len(data.portfolio.v.projects.v) |->
                            PortfolioProjectLines(data.portfolio.v.projects.v[i])])
             ELSE "")
    ELSE ""

\* "\n<heading>:\n" and the lines of the entries, for a list-valued section
EducationSummary(data) ==
    IF "education" \in DOMAIN data /\ Truthy(data.education)
    THEN "\nEducation:\n"
         \o Concat([i \in 1..Len(data.education.v) |->
                       EducationSummaryLine(data.education.v[i])])
    ELSE ""

WorkSummary(data) ==
    IF "work_experience" \in DOMAIN data /\ Truthy(data.work_experience)
    THEN "\nWork Experience:\n"
         \o Concat([i \in 1..Len(data.work_experience.v) |->
                       JobSummaryLines(data.work_experience.v[i])])
    ELSE ""

ProjectsSummary(data) ==
    IF "projects" \in DOMAIN data /\ Truthy(data.projects)
    THEN "\nProjects:\n"
         \o Concat([i \in 1..Len(data.projects.v) |->
                       ProjectSummaryLines(data.projects.v[i])])
    ELSE ""

\* UserProfile.get_profile_summary
GetProfileSummary(data) ==
    Strip("User Profile Summary:\n" \o BasicSummary(data) \o EducationSummary(data)
          \o WorkSummary(data) \o SkillsSummary(data) \o ProjectsSummary(data)
          \o PortfolioSummary(data))

-----------------------------------------------------------------------------
(* ContextAnalyzer.generate_content *)

\* profile_map: field_type -> <<section, key>>
ProfileMap ==
    [ft \in {"Email Address", "Phone Number", "Full Name", "Street Address", "City",
             "State/Province", "Country", "Website", "Job Title", "Company Name",
             "Education", "Work Experience", "Skills", "Projects", "Profile Summary",
             "Achievements", "Languages", "Certifications"} |->
        CASE ft = "Email Address" -> <<"basic", Str("email")>>
          [] ft = "Phone Number" -> <<"basic", Str("phone")>>
          [] ft = "Full Name" -> <<"basic", Str("name")>>
          [] ft \in {"Street Address", "City", "State/Province", "Country"} ->
                <<"basic", Str("location")>>
          [] ft = "Website" -> <<"portfolio", Str("personal_website")>>
          [] ft = "Job Title" -> <<"work_experience", Str("title")>>
          [] ft = "Company Name" -> <<"work_experience", Str("company")>>
          [] ft = "Education" -> <<"education", None>>
          [] ft = "Work Experience" -> <<"work_experience", None>>
          [] ft \in {"Skills", "Languages"} -> <<"skills", None>>
          [] ft = "Projects" -> <<"projects", None>>
          [] ft = "Profile Summary" -> <<"basic", None>>
          [] ft = "Achievements" -> <<"skills", Str("achievements")>>
          [] ft = "Certifications" -> <<"skills", Str("certifications")>>]

PasswordPlaceholder == "******"

\* A step of the resolution order: Ret/Raise ends generate_content, NoResult
\* falls through to the next step.

\* Lines 1284-1354: a list-valued section rendered entry by entry.
ListField(data, section, Render(_), sep) ==
    LET r == GetValue(data, section, None)
    IN  IF r.kind = "raise" THEN r
        ELSE IF Truthy(r.value) /\ r.value.t = "list" /\ Len(r.value.v) > 0
             THEN Ret(Join([i \in 1..Len(r.value.v) |-> Render(r.value.v[i])], sep))
             ELSE NoResult

\* Lines 1317-1329
SkillsField(data, section) ==
    LET r == GetValue(data, section, None)
    IN  IF r.kind = "raise" THEN r
        ELSE IF Truthy(r.value) /\ r.value.t = "dict"
             THEN Ret(FormatSkills(r.value.v))
             ELSE NoResult

\* Lines 1356-1396: x = get_value(...) or <empty>, three times, then the summary.
SummaryField(data) ==
    LET r1 == GetValue(data, "basic", None)
        r2 == GetValue(data, "work_experience", None)
        r3 == GetValue(data, "skills", None)
    IN  IF r1.kind = "raise" THEN r1
        ELSE IF r2.kind = "raise" THEN r2
        ELSE IF r3.kind = "raise" THEN r3
        ELSE LET basic_info == PyOr(r1.value, EmptyDict)
                 work_exp == PyOr(r2.value, List(<<>>))
                 skills_data == PyOr(r3.value, EmptyDict)
                 value == SummaryValue(basic_info.v, work_exp.v, skills_data.v)
             IN  IF value # "" THEN Ret(value) ELSE NoResult

\* Lines 1282-1402: the fields whose profile_map key is None.
CompositeField(field_type, data, section) ==
    CASE field_type = "Education" -> ListField(data, section, EducationEntry, "\n")
      [] field_type = "Work Experience" -> ListField(data, section, WorkEntry, "\n\n")
      [] field_type = "Skills" -> SkillsField(data, section)
      [] field_type = "Projects" -> ListField(data, section, ProjectEntry, "\n\n")
      [] field_type = "Profile Summary" -> SummaryField(data)
      [] OTHER -> NoResult

\* Lines 1403-1427 without the test of the value: str(value) whatever it is
DirectFieldUnchecked(data, section, key) ==
    LET r == GetValue(data, section, key)
    IN  IF r.kind = "raise" THEN r
        ELSE Ret(IF r.value = None THEN "" ELSE ToStr(r.value))

\* Lines 1403-1427: the fields mapped to one profile value.
DirectField(data, section, key) ==
    LET r == GetValue(data, section, key)
    IN  IF r.kind = "raise" THEN r
        ELSE IF ~Truthy(r.value) THEN NoResult
        ELSE LET value ==
                     IF section = "work_experience" /\ r.value.t = "list"
                        /\ Len(r.value.v) > 0
                     THEN (IF key.v \in DOMAIN r.value.v[1].v
                           THEN r.value.v[1].v[key.v] ELSE None)
                     ELSE r.value
             IN  IF Truthy(value) THEN Ret(ToStr(value)) ELSE NoResult

\* Step 1 (lines 1278-1427)
ProfileStep(field_type, data) ==
    IF field_type \notin DOMAIN ProfileMap THEN NoResult
    ELSE LET section == ProfileMap[field_type][1]
             key == ProfileMap[field_type][2]
         IN  IF key = None THEN CompositeField(field_type, data, section)
             ELSE DirectField(data, section, key)

\* Step 2 (lines 1429-1432)
PasswordStep(field_type) ==
    IF field_type = "Password" THEN Ret(PasswordPlaceholder) ELSE NoResult

\* Step 3 (lines 1434-1492): the generate_text call is not inside a try.
GenerationStep(field_type, length, llm) ==
    LET generated_content == GenerateText(llm, "generation prompt")
    IN  IF generated_content.kind = "raise" THEN generated_content
        ELSE IF field_type \notin {"Skill List", "Message Body"} /\ length # "Long"
             THEN Ret(StripMarker(generated_content.value))
             ELSE generated_content

\* [out |-> the call's outcome, calls |-> generate_text calls it issued]
\* The resolution order, given the outcomes s1 and s2 of its first two steps.
ResolutionOrder(s1, s2, field_type, length, llm) ==
    IF s1.kind # "none" THEN [out |-> s1, calls |-> 0]
    ELSE IF s2.kind # "none" THEN [out |-> s2, calls |-> 0]
    ELSE [out |-> GenerationStep(field_type, length, llm), calls |-> 1]

ResolveField(field_type, length, data, llm) ==
    ResolutionOrder(ProfileStep(field_type, data), PasswordStep(field_type),
                    field_type, length, llm)

\* Lines 1435-1437 and 1476-1482: the generation step passes the profile
\* summary to generate_text as context["profile_summary"].
WithContext(r, data) ==
    [out |-> r.out, calls |-> r.calls,
     context |-> IF r.calls = 1 THEN Str(GetProfileSummary(data)) ELSE Absent]

\* [out |-> the call's outcome, calls |-> generate_text calls it issued,
\*  context |-> the profile summary those calls were given]
GenerateContent(context_analysis, data, llm) ==
    WithContext(ResolveField(DictGet(context_analysis, "field_type", "Generic Text"),
                             DictGet(context_analysis, "recommended_length", "Medium"),
                             data, llm),
                data)

-----------------------------------------------------------------------------
(* SmartFillApp.trigger_smart_fill *)

\* rumps.notification(subtitle=...) and rumps.alert(...), by what they say
Notify(subtitle) == [kind |-> "notification", says |-> subtitle]
Alert(says) == [kind |-> "alert", says |-> says]

\* The first two notifications of a trigger that passed its checks (lines 2933, 2940)
Progress == <<Notify("Analyzing context..."), Notify("Generating content...")>>

\* [shown |-> notifications and alerts in order,
\*  called |-> which of the four operations the trigger called,
\*  inserted |-> the text given to insert_text, generations |-> generate_text
\*  calls of the generation step, raised |-> the handler ended in an exception]
Shown(shown, called, inserted, generations, raised) ==
    [shown |-> shown, called |-> called, inserted |-> inserted,
     generations |-> generations, raised |-> raised]

\* Lines 2960-2999 without the password test of line 2962.
InsertStepUnguarded(context_analysis, text, success) ==
    IF text = "" THEN [says |-> Notify("Fill Failed"), inserted |-> Absent]
    ELSE [says |-> Notify(IF success THEN "Fill Successful" ELSE "Fill Failed"),
          inserted |-> Str(text)]

\* Lines 2960-2999: what is done with the content generate_content returned;
\* success is what insert_text returns.
InsertStep(context_analysis, text, success) ==
    IF text = "" THEN [says |-> Notify("Fill Failed"), inserted |-> Absent]
    ELSE IF "field_type" \in DOMAIN context_analysis
            /\ context_analysis.field_type = "Password"
    THEN [says |-> Alert("Password field detected"), inserted |-> Absent]
    ELSE [says |-> Notify(IF success THEN "Fill Successful" ELSE "Fill Failed"),
          inserted |-> Str(text)]

\* The operations a trigger called, given the generate_text calls it issued
\* and what it inserted.
Called(steps, calls, inserted) ==
    steps \cup (IF calls > 0 THEN {"generate_text"} ELSE {})
          \cup (IF inserted # Absent THEN {"insert_text"} ELSE {})

\* Lines 2960-2999, given the outcomes a and g and the step's result i.
Inserted(info, a, g, i) ==
    [info |-> info, analysis |-> a.out, content |-> g.out,
     calls |-> a.calls + g.calls, context |-> g.context,
     ui |-> Shown(Append(Progress, i.says),
                  Called({"analyze_context", "generate_content"},
                         a.calls + g.calls, i.inserted),
                  i.inserted, g.calls, FALSE)]

\* Lines 2947-2999, given the outcomes a and g of the two calls.
FillContent(info, a, g, success) ==
    IF g.out.kind = "raise"
    THEN [info |-> info, analysis |-> a.out, content |-> g.out,
          calls |-> a.calls + g.calls, context |-> g.context,
          ui |-> Shown(Append(Progress, Notify("Generation Error")),
                       Called({"analyze_context", "generate_content"},
                              a.calls + g.calls, Absent),
                       Absent, g.calls, FALSE)]
    ELSE Inserted(info, a, g,
                  InsertStep(a.out.value,
                             IF g.out.kind = "return" THEN g.out.value ELSE "",
                             success))

\* Lines 2936-2999, given the outcome a of analyze_context, which is not
\* called inside a try.
FillAnalyzed(info, a, data, llm, success) ==
    IF a.out.kind = "raise"
    THEN [info |-> info, analysis |-> a.out, content |-> NoResult, calls |-> a.calls,
          context |-> Absent,
          ui |-> Shown(<<Notify("Analyzing context...")>>,
                       Called({"analyze_context"}, a.calls, Absent),
                       Absent, 0, TRUE)]
    ELSE FillContent(info, a, GenerateContent(a.out.value, data, llm), success)

\* Lines 2932-2999: the steps after the checks.
FillSteps(info, data, llm, success) ==
    FillAnalyzed(info, AnalyzeContext(info, llm), data, llm, success)

\* A trigger that ended at one of its checks.
Aborted(info, says) ==
    [info |-> info, analysis |-> NoResult, content |-> NoResult, calls |-> 0,
     context |-> Absent,
     ui |-> Shown(<<says>>, {}, Absent, 0, FALSE)]

\* The handler without its checks of lines 2897-2930.
TriggerUnchecked(has_perms, info, data, llm, success) ==
    FillSteps(info, data, llm, success)

\* trigger_smart_fill: has_perms is what check_permissions returns, info what
\* get_focused_element_info returns, success what insert_text returns.
TriggerSmartFill(has_perms, info, data, llm, success) ==
    IF ~has_perms THEN Aborted(<<>>, Alert("Permissions Required"))
    ELSE IF info = <<>> \/ "error" \in DOMAIN info
    THEN Aborted(info, Notify("Context Error"))
    ELSE IF ~Truthy(DictGet(info, "editable", Bool(TRUE)))
    THEN Aborted(info, Notify("Fill Error"))
    ELSE FillSteps(info, data, llm, success)

-----------------------------------------------------------------------------
(* autofill_bridge.process_context *)

\* str(e) of the exceptions the modelled code raises
ExcMessage(exc) ==
    CASE exc = "UnboundLocalError" ->
            "cannot access local variable 'model' where it is not associated with a value"
      [] exc = "AttributeError" -> "'list' object has no attribute 'get'"
      [] exc = "TypeError" -> "'NoneType' object is not subscriptable"

\* Lines 60-67: the accessibility_info built from the payload.
BridgeInfo(context_data) ==
    [app_name |-> DictGet(context_data, "appName", Str("Unknown")),
     window_title |-> DictGet(context_data, "windowTitle", Str("Unknown")),
     title |-> DictGet(context_data, "fieldLabel", Str("Unknown")),
     role |-> DictGet(context_data, "fieldRole", Str("Unknown")),
     surrounding_text |-> DictGet(context_data, "surroundingText", Str("")),
     selected_text |-> DictGet(context_data, "selectedText", Str(""))]

\* Lines 47-85: analyze_context, then generate_content, any exception turned
\* into the returned string "Error: <message>".
\* Lines 73-85, given the outcomes a and g of the two calls.
BridgeReturn(info, a, g) ==
    [info |-> info, analysis |-> a.out, content |-> g.out,
     calls |-> a.calls + g.calls, context |-> g.context,
     result |-> IF g.out.kind = "raise"
                THEN "Error: " \o ExcMessage(g.out.exc)
                ELSE g.out.value]

\* Lines 69-85, given the outcome a of analyze_context.
BridgeResolve(info, a, data, llm) ==
    IF a.out.kind = "raise"
    THEN [info |-> info, analysis |-> a.out, content |-> NoResult, calls |-> a.calls,
          context |-> Absent,
          result |-> "Error: " \o ExcMessage(a.out.exc)]
    ELSE BridgeReturn(info, a, GenerateContent(a.out.value, data, llm))

BridgeAnalyze(info, data, llm) ==
    BridgeResolve(info, AnalyzeContext(info, llm), data, llm)

ProcessContext(context_data, data, llm) ==
    BridgeAnalyze(BridgeInfo(context_data), data, llm)

-----------------------------------------------------------------------------
(* The bridge scripts as run from the command line: what reaches stdout *)

\* A context file json.load cannot decode.
Undecodable == [t |-> "undecodable"]

\* A path no file is at.
Missing == [t |-> "missing"]

NoSuchFile == "[Errno 2] No such file or directory: 'context.json'"
JsonError == "Expecting value: line 1 column 1 (char 0)"
ListHasNoGet == "'list' object has no attribute 'get'"
NoneHasNoLower == "'NoneType' object has no attribute 'lower'"

\* [stdout, failed, returned, ...] of a run that never reaches analyze_context
BridgeEarly(lines, returned) ==
    [stdout |-> lines, failed |-> TRUE, returned |-> returned,
     info |-> <<>>, analysis |-> NoResult, content |-> NoResult, calls |-> 0,
     context |-> Absent]

\* Lines 102-103 of autofill_bridge.py, given what process_context did
BridgePrinted(b) ==
    [stdout |-> <<b.result>>,
     failed |-> b.analysis.kind = "raise" \/ b.content.kind = "raise",
     returned |-> Ret(b.result),
     info |-> b.info, analysis |-> b.analysis, content |-> b.content, calls |-> b.calls,
     context |-> b.context]

\* autofill_bridge.py run as a script; inv = [argv, file]
BridgeMain(inv, data, llm) ==
    IF Len(inv.argv) < 2
    THEN BridgeEarly(<<"Error: Missing context data file path">>, NoResult)
    ELSE IF inv.file = Missing
    THEN BridgeEarly(<<"Error: Context file not found: " \o NoSuchFile>>, NoResult)
    ELSE IF inv.file = Undecodable
    THEN BridgeEarly(<<"Error: Invalid JSON in context file: " \o JsonError>>, NoResult)
    ELSE IF inv.file.t # "dict"
    THEN BridgeEarly(<<"Error: " \o ListHasNoGet>>, Ret("Error: " \o ListHasNoGet))
    ELSE BridgePrinted(ProcessContext(inv.file.v, data, llm))

\* simple_bridge.analyze_field_type: the branches of its if-chain, in order
FieldTypeBranches ==
    <<<<{"email", "{u90ae}{u7bb1}", "{u7535}{u5b50}{u90ae}{u4ef6}", "{u90ae}{u4ef6}"},
        "Email Address">>,
      <<{"phone", "{u7535}{u8bdd}", "{u624b}{u673a}", "{u8054}{u7cfb}{u65b9}{u5f0f}", "{u8054}{u7cfb}{u7535}{u8bdd}"},
        "Phone Number">>,
      <<{"name", "{u59d3}{u540d}", "{u5168}{u540d}"},
        "Full Name">>,
      <<{"address", "{u5730}{u5740}", "{u4f4f}{u5740}"},
        "Street Address">>,
      <<{"education", "{u5b66}{u5386}", "{u6559}{u80b2}", "{u5b66}{u6821}", "{u5927}{u5b66}"},
        "Education">>,
      <<{"experience", "{u5de5}{u4f5c}{u7ecf}{u5386}", "{u5de5}{u4f5c}{u7ecf}{u9a8c}", "{u804c}{u4e1a}{u7ecf}{u5386}"},
        "Work Experience">>,
      <<{"skills", "{u6280}{u80fd}", "{u80fd}{u529b}", "{u4e13}{u957f}"},
        "Skills">>,
      <<{"projects", "{u9879}{u76ee}", "{u9879}{u76ee}{u7ecf}{u9a8c}"},
        "Projects">>,
      <<{"summary", "{u7b80}{u4ecb}", "{u81ea}{u6211}{u4ecb}{u7ecd}", "{u4e2a}{u4eba}{u7b80}{u4ecb}"},
        "Profile Summary">>>>

AnalyzeFieldType(field_text) ==
    LET hit == SelectSeq(FieldTypeBranches, LAMBDA b : AnyIn(b[1], Lower(field_text)))
    IN  IF hit = <<>> THEN "Unknown" ELSE hit[1][2]

\* simple_bridge.get_field_value on sections that are a list
FormattedEducation(education_data) ==
    IF Truthy(education_data) /\ education_data.t = "list"
    THEN Str(Join([i \in 1..Len(education_data.v) |->
                     EducationEntry(education_data.v[i])], "\n"))
    ELSE Str("")

FormattedWork(work_data) ==
    IF Truthy(work_data) /\ work_data.t = "list"
    THEN Str(Join([i \in 1..Len(work_data.v) |-> WorkEntry(work_data.v[i])], "\n\n"))
    ELSE Str("")

FormattedProjects(projects_data) ==
    IF Truthy(projects_data) /\ projects_data.t = "list"
    THEN Str(Join([i \in 1..Len(projects_data.v) |->
                     ProjectEntry(projects_data.v[i])], "\n\n"))
    ELSE Str("")

FormattedSkills(skills_data) ==
    IF Truthy(skills_data) /\ skills_data.t = "dict"
    THEN Str(FormatSkills(skills_data.v))
    ELSE Str("")

\* profile_data["basic"].get(key, "")
BasicValue(profile_data, key) == DictGet(profile_data.basic.v, key, Str(""))

\* simple_bridge.get_field_value
GetFieldValue(profile_data, field_type) ==
    LET has(section) == section \in DOMAIN profile_data
    IN  CASE field_type = "Email Address" /\ has("basic") -> BasicValue(profile_data, "email")
          [] field_type = "Phone Number" /\ has("basic") -> BasicValue(profile_data, "phone")
          [] field_type = "Full Name" /\ has("basic") -> BasicValue(profile_data, "name")
          [] field_type = "Street Address" /\ has("basic") ->
                BasicValue(profile_data, "location")
          [] field_type = "Education" /\ has("education") ->
                FormattedEducation(profile_data.education)
          [] field_type = "Work Experience" /\ has("work_experience") ->
                FormattedWork(profile_data.work_experience)
          [] field_type = "Skills" /\ has("skills") -> FormattedSkills(profile_data.skills)
          [] field_type = "Projects" /\ has("projects") ->
                FormattedProjects(profile_data.projects)
          [] field_type = "Profile Summary" /\ has("basic") ->
                Str(SummaryValue(profile_data.basic.v,
                                 DictGet(profile_data, "work_experience", List(<<>>)).v,
                                 DictGet(profile_data, "skills", EmptyDict).v))
          [] OTHER -> Str("")

\* simple_bridge.get_profile_data: the data of profiles/default.json, or {}
\* after printing why it could not be read
GetProfileData(data, readable) ==
    IF readable THEN [data |-> data, stdout |-> <<>>]
    ELSE [data |-> <<>>, stdout |-> <<"Error loading profile data: " \o NoSuchFile>>]

\* simple_bridge.process_context from its analyze_field_type call on
SimpleAnalyze(selected_text, loaded) ==
    IF selected_text.t # "str"
    THEN [stdout |-> loaded.stdout \o <<"Error processing context: " \o NoneHasNoLower>>,
          failed |-> TRUE, result |-> "Error: " \o NoneHasNoLower]
    ELSE [stdout |-> loaded.stdout
                     \o <<"Field type: " \o AnalyzeFieldType(selected_text.v)>>,
          failed |-> FALSE,
          result |-> ToStr(GetFieldValue(loaded.data, AnalyzeFieldType(selected_text.v)))]

\* simple_bridge.process_context
SimpleProcessContext(context_data, data, readable) ==
    IF context_data.t # "dict"
    THEN [stdout |-> <<"Error processing context: " \o ListHasNoGet>>,
          failed |-> TRUE, result |-> "Error: " \o ListHasNoGet]
    ELSE SimpleAnalyze(DictGet(context_data.v, "selectedText", Str("")),
                       GetProfileData(data, readable))

\* Lines 189-190 of simple_bridge.py: the result printed after what
\* process_context printed
SimplePrinted(p) ==
    [stdout |-> p.stdout \o <<p.result>>, failed |-> p.failed, returned |-> Ret(p.result)]

\* A run of simple_bridge.py that ends before process_context
SimpleEarly(line) == [stdout |-> <<line>>, failed |-> TRUE, returned |-> NoResult]

\* simple_bridge.py run as a script; inv = [argv, file]
SimpleMain(inv, data, readable) ==
    IF Len(inv.argv) < 2
    THEN SimpleEarly("Usage: python simple_bridge.py <context_json_file>")
    ELSE IF inv.file = Missing
    THEN SimpleEarly("Error: Context file not found: " \o NoSuchFile)
    ELSE IF inv.file = Undecodable
    THEN SimpleEarly("Error: Invalid JSON in context file: " \o JsonError)
    ELSE SimplePrinted(SimpleProcessContext(inv.file, data, readable))

-----------------------------------------------------------------------------
(* Inputs of the fill pipeline *)

Entry(k, x) == IF x = Absent THEN <<>> ELSE (k :> x)

Labels ==
    {"Email", "Company Email", "Password", "password", "Enter password",
     "Email password", "Job Title", "Company Name", "Work Experience", "Education",
     "Full Name", "Phone", "Website", "Notes", "Unknown", "Comment"}
TitleValues == {Absent, None, Str("")} \cup {Str(l) : l \in Labels}
PlaceholderValues == {Absent, Str("Your email")}
RoleValues == {Absent, None, Str("AXTextField"), Str("Password field"), Str("text area")}
TextValues == {Absent, None, Str(""), Str("Upload your resume"), Str("Sign in")}
AppValues == {Absent, None, Str("Safari")}

Snapshot(app, title, ph, role, text) ==
    Entry("app_name", app) @@ Entry("window_title", app) @@ Entry("title", title)
    @@ Entry("placeholder", ph) @@ Entry("role", role) @@ Entry("surrounding_text", text)

\* accessibility_info values handed to analyze_context
Snapshots ==
    {Snapshot(Str("Safari"), t, Absent, r, x) :
        t \in TitleValues, r \in RoleValues, x \in TextValues}
    \cup {Snapshot(a, t, ph, Absent, x) :
            a \in AppValues, t \in {Absent, None, Str("Notes")},
            ph \in PlaceholderValues, x \in {Absent, None, Str("")}}

\* What get_focused_element_info returns when it finds no element
NoFocus == Entry("app_name", Str("Safari")) @@ Entry("error", Str("No focused element found."))
NoFrontmost == Entry("error", Str("Could not get frontmost application info."))

\* A focused control that is not editable
ReadOnly == Entry("app_name", Str("Safari")) @@ Entry("title", Str("Email"))
            @@ Entry("editable", Bool(FALSE))

\* What get_focused_element_info returns: line 1679 drops the None values.
FocusedElements ==
    {info \in Snapshots : \A k \in DOMAIN info : info[k] # None}
    \cup {NoFocus, NoFrontmost, ReadOnly}

\* JSON payloads handed to the bridge
Payloads ==
    {Entry("fieldLabel", t) @@ Entry("fieldRole", r) @@ Entry("surroundingText", x) :
        t \in {Absent, None, Str("Email"), Str("Company Email"), Str("Password"),
               Str("Work Experience"), Str("Job Title"), Str("Notes")},
        r \in {Absent, Str("textField")},
        x \in {Absent, None, Str(""), Str("Upload your resume")}}

\* sys.argv and the context file at the path it names
Invoke(file) == [argv |-> <<"bridge.py", "context.json">>, file |-> file]
NoArgument == [argv |-> <<"bridge.py">>, file |-> Missing]

\* Command lines of autofill_bridge.py
Invocations ==
    {NoArgument, Invoke(Missing), Invoke(Undecodable), Invoke(List(<<>>))}
    \cup {Invoke(Dict(Entry("fieldLabel", t) @@ Entry("surroundingText", x))) :
            t \in {Absent, Str("Email"), Str("Work Experience"), Str("Notes")},
            x \in {Absent, None}}

\* Command lines of simple_bridge.py
SimpleInvocations ==
    {NoArgument, Invoke(Missing), Invoke(Undecodable), Invoke(List(<<>>))}
    \cup {Invoke(Dict(Entry("selectedText", t))) :
            t \in {Absent, None, Str("Email"), Str("Work Experience"), Str("Skills"),
                   Str("{u90ae}{u7bb1}"), Str("Notes")}}

\* Classification results handed to generate_content by a caller
Classifications ==
    {<<>>}
    \cup {[field_type |-> ft, content_type |-> "Resume Form",
           recommended_style |-> "Professional", recommended_length |-> len] :
            ft \in DOMAIN ProfileMap \cup {"Password", "Generic Text", "Message Body"},
            len \in {"Medium", "Long"}}

LLMs ==
    {[provider |-> "openai", client |-> TRUE, backend |-> b] :
        b \in {"text", "bullet", "json", "auth", "ratelimit", "timeout"}}
    \cup {[provider |-> "openai", client |-> FALSE, backend |-> "text"],
          [provider |-> "ollama", client |-> FALSE, backend |-> "json_partial"],
          [provider |-> "ollama", client |-> FALSE, backend |-> "timeout"],
          [provider |-> "none", client |-> FALSE, backend |-> "text"]}

\* UserProfile._create_default_profile (lines 255-276)
DefaultProfile ==
    [basic |-> Dict([name |-> Str(""), gender |-> Str(""), birth_year |-> Str(""),
                     email |-> Str(""), phone |-> Str(""), location |-> Str("")]),
     education |-> List(<<Dict([period |-> Str(""), school |-> Str(""),
                                degree |-> Str(""), major |-> Str("")])>>),
     work_experience |-> List(<<Dict([company |-> Str(""), period |-> Str(""),
                                      title |-> Str(""), highlights |-> List(<<>>)])>>),
     projects |-> List(<<Dict([name |-> Str(""), description |-> Str(""),
                               highlights |-> List(<<>>)])>>),
     skills |-> Dict([ai_frameworks |-> List(<<>>), hardware |-> List(<<>>),
                      certifications |-> List(<<>>), achievements |-> List(<<>>)]),
     portfolio |-> Dict([personal_website |-> Str(""), projects |-> List(<<>>)])]

Job(title, company, period, highlights) ==
    Dict(Entry("title", title) @@ Entry("company", company)
         @@ [period |-> Str(period), highlights |-> List(highlights)])

JobAcme == Job(Str("Engineer"), Str("Acme"), "2022-2024", <<Str("Shipped X")>>)
JobBeta == Job(Str("Intern"), Str("Beta"), "2019-2021", <<>>)

FilledBasic ==
    Dict([name |-> Str("Ada Lovelace"), gender |-> Str(""), birth_year |-> Str("1990"),
          email |-> Str("a@b.com"), phone |-> Str("+44 20 7946 0000"),
          location |-> Str("London, England, UK")])

FilledProfile ==
    [basic |-> FilledBasic,
     education |-> List(<<Dict([period |-> Str("2008-2012"), school |-> Str("MIT"),
                                degree |-> Str("BSc"), major |-> Str("Mathematics")])>>),
     work_experience |-> List(<<JobAcme, JobBeta>>),
     projects |-> List(<<Dict([name |-> Str("Engine"), description |-> Str("Analytical"),
                               highlights |-> List(<<Str("Ran a program")>>)])>>),
     skills |-> Dict([ai_frameworks |-> List(<<Str("PyTorch"), Str("JAX")>>),
                      hardware |-> List(<<>>),
                      certifications |-> List(<<Str("PMP")>>),
                      achievements |-> List(<<>>)]),
     portfolio |-> Dict([personal_website |-> Str("https://ada.example"),
                         projects |-> List(<<>>)])]

WithWork(jobs) == [FilledProfile EXCEPT !.work_experience = List(jobs)]

\* Profile data written by hand: the sections its author filled in
PartialProfile == [s \in {"basic", "skills"} |-> FilledProfile[s]]

\* In-memory profile data the resolver is run against
Profiles ==
    {DefaultProfile, FilledProfile,
     WithWork(<<Job(Str(""), Str(""), "2022-2024", <<>>), JobBeta>>),
     WithWork(<<Job(Absent, Absent, "2022-2024", <<>>), JobBeta>>),
     WithWork(<<>>),
     PartialProfile}

-----------------------------------------------------------------------------
(* The fill pipeline: one trigger at a time *)

\* The stores as the fill pipeline leaves them: untouched.
StoresIdle ==
    /\ keyFile = Absent /\ nextKey = 1 /\ profFile = Absent
    /\ inst = Absent /\ saved = Absent
    /\ config = Absent /\ configFile = Absent /\ keyring = <<>>
    /\ lastOp = [op |-> "none"]

FillIdle ==
    /\ snap = <<>> /\ analysis = NoResult /\ content = NoResult
    /\ llmCalls = 0 /\ llmEnv = Absent /\ bridgeOut = NoResult /\ bridgeRun = Absent
    /\ llmContext = Absent /\ ui = Absent
    /\ phase = "idle"

Init ==
    /\ profile \in Profiles
    /\ FillIdle
    /\ StoresIdle

\* ContextAnalyzer.analyze_context(accessibility_info)
AnalyzeCall ==
    /\ phase = "idle"
    /\ \E info \in Snapshots, llm \in LLMs :
         \E r \in {AnalyzeContext(info, llm)} :
             /\ snap' = info
             /\ analysis' = r.out
             /\ llmCalls' = r.calls
             /\ llmEnv' = llm
    /\ phase' = "analyzed"
    /\ UNCHANGED <<profile, content, bridgeOut, bridgeRun, llmContext, ui, profileVars,
                   configVars, lastOp>>

\* ContextAnalyzer.generate_content on the result analyze_context returned
GenerateCall ==
    /\ phase = "analyzed"
    /\ analysis.kind = "return"
    /\ \E g \in {GenerateContent(analysis.value, profile, llmEnv)} :
         /\ content' = g.out
         /\ llmCalls' = llmCalls + g.calls
         /\ llmContext' = g.context
    /\ phase' = "generated"
    /\ UNCHANGED <<profile, snap, analysis, llmEnv, bridgeOut, bridgeRun, ui, profileVars,
                   configVars, lastOp>>

\* ContextAnalyzer.generate_content on a classification result its caller holds
ResolveCall ==
    /\ phase = "idle"
    /\ \E ca \in Classifications, llm \in LLMs :
         \E g \in {GenerateContent(ca, profile, llm)} :
             /\ analysis' = Ret(ca)
             /\ content' = g.out
             /\ llmCalls' = g.calls
             /\ llmEnv' = llm
             /\ llmContext' = g.context
    /\ phase' = "resolved"
    /\ UNCHANGED <<profile, snap, bridgeOut, bridgeRun, ui, profileVars, configVars,
                   lastOp>>

\* autofill_bridge.process_context(context_data)
BridgeCall ==
    /\ phase = "idle"
    /\ \E context_data \in Payloads, llm \in LLMs :
         \E b \in {ProcessContext(context_data, profile, llm)} :
             /\ snap' = b.info
             /\ analysis' = b.analysis
             /\ content' = b.content
             /\ llmCalls' = b.calls
             /\ llmEnv' = llm
             /\ bridgeOut' = Ret(b.result)
             /\ llmContext' = b.context
    /\ phase' = "bridged"
    /\ UNCHANGED <<profile, bridgeRun, ui, profileVars, configVars, lastOp>>

\* python autofill_bridge.py [context_file]
BridgeMainCall ==
    /\ phase = "idle"
    /\ \E inv \in Invocations, llm \in LLMs :
         \E r \in {BridgeMain(inv, profile, llm)} :
             /\ snap' = r.info
             /\ analysis' = r.analysis
             /\ content' = r.content
             /\ llmCalls' = r.calls
             /\ llmEnv' = llm
             /\ bridgeOut' = r.returned
             /\ bridgeRun' = [script |-> "autofill_bridge", failed |-> r.failed,
                              returned |-> r.returned, stdout |-> r.stdout]
             /\ llmContext' = r.context
    /\ phase' = "ran"
    /\ UNCHANGED <<profile, ui, profileVars, configVars, lastOp>>

\* python simple_bridge.py [context_file]
SimpleBridgeMainCall ==
    /\ phase = "idle"
    /\ \E inv \in SimpleInvocations, readable \in BOOLEAN :
         \E r \in {SimpleMain(inv, profile, readable)} :
             bridgeRun' = [script |-> "simple_bridge", failed |-> r.failed,
                           returned |-> r.returned, stdout |-> r.stdout]
    /\ phase' = "ran"
    /\ UNCHANGED <<profile, snap, analysis, content, llmCalls, llmEnv, bridgeOut,
                   llmContext, ui, profileVars, configVars, lastOp>>

\* SmartFillApp.trigger_smart_fill(sender); check_accessibility writes what
\* check_permissions returned into the configuration and, when the user
\* answers its alert with "Open Settings", opens the settings panel.
TriggerSmartFillCall ==
    /\ phase = "idle"
    /\ \E has_perms \in BOOLEAN, info \in FocusedElements, llm \in LLMs,
          success \in BOOLEAN :
         \E r \in {TriggerSmartFill(has_perms, info, profile, llm, success)} :
           \E open \in (IF has_perms THEN {FALSE} ELSE BOOLEAN) :
             /\ snap' = r.info
             /\ analysis' = r.analysis
             /\ content' = r.content
             /\ llmCalls' = r.calls
             /\ llmEnv' = llm
             /\ llmContext' = r.context
             /\ ui' = [permissions_granted |-> has_perms, settings_opened |-> open]
                      @@ r.ui
    /\ phase' = "filled"
    /\ UNCHANGED <<profile, bridgeOut, bridgeRun, profileVars, configVars, lastOp>>

\* The trigger is over; the next one starts from nothing but the stores.
EndTrigger ==
    /\ phase # "idle"
    /\ snap' = <<>> /\ analysis' = NoResult /\ content' = NoResult
    /\ llmCalls' = 0 /\ llmEnv' = Absent /\ bridgeOut' = NoResult
    /\ bridgeRun' = Absent /\ llmContext' = Absent /\ ui' = Absent /\ phase' = "idle"
    /\ UNCHANGED <<profile, profileVars, configVars, lastOp>>

Next ==
    \/ AnalyzeCall \/ GenerateCall \/ ResolveCall \/ BridgeCall
    \/ BridgeMainCall \/ SimpleBridgeMainCall \/ TriggerSmartFillCall \/ EndTrigger

Spec == Init /\ [][Next]_vars

-----------------------------------------------------------------------------
(* What a snapshot says, as analyze_context reads it *)

LabelOf(info) ==
    PyOr(PyOr(DictGet(info, "title", None), DictGet(info, "placeholder", None)),
         Str("Unknown")).v
RoleOf(info) ==
    PyOr(PyOr(DictGet(info, "role_description", None), DictGet(info, "role", None)),
         Str("Unknown")).v
TextReadable(info) == DictGet(info, "surrounding_text", Str("")).t = "str"
TextOf(info) == Prefix(DictGet(info, "surrounding_text", Str("")).v, SurroundingLimit)

\* The deterministic keyword pass matches a rule on this snapshot.
RuleMatched(info) ==
    /\ TextReadable(info)
    /\ SimpleFieldAnalysis(LabelOf(info), RoleOf(info), TextOf(info)) # None

-----------------------------------------------------------------------------
(* Properties of the classifier and the resolver *)

PasswordKeywords == {"password", "secret", "{u5bc6}{u7801}"}

PasswordLike(info) ==
    \/ AnyIn(PasswordKeywords, Lower(LabelOf(info)))
    \/ AnyIn(PasswordKeywords, Lower(RoleOf(info)))

\* The contact-field rules whose keywords the label contains.
ContactHits(label) ==
    {i \in 1..LastContactRule : AnyIn(Rules[i].label, Lower(label))}

\* The label also contains a keyword of a resume-section or generic rule.
LaterHit(label) ==
    \E i \in (LastContactRule + 1)..Len(Rules) :
        Rules[i].label # {} /\ AnyIn(Rules[i].label, Lower(label))

FirstOf(S) == CHOOSE i \in S : \A j \in S : i <= j

\* C1: when the deterministic keyword pass matches a rule on the snapshot,
\* analyze_context issues no generate_text call and returns the result of the
\* keyword pass, which depends on the snapshot alone (not on the backend).
C1_MatchedRuleIsBackendFree ==
    (phase = "analyzed" /\ RuleMatched(snap)) =>
        /\ llmCalls = 0
        /\ analysis =
             Ret(SimpleFieldAnalysis(LabelOf(snap), RoleOf(snap), TextOf(snap)).v)

C1_Witness ==
    /\ phase = "analyzed"
    /\ RuleMatched(snap)
    /\ llmCalls = 0
    /\ analysis.kind = "return"
    /\ analysis.value.field_type = "Work Experience"
    /\ analysis.value.recommended_length = "Long"

\* C2: a label that contains a contact-field keyword and a keyword of a later
\* rule is classified with the field_type of the contact-field rule
\* ("Company Email" gives "Email Address").
C2_ContactRuleWins ==
    (/\ phase = "analyzed"
     /\ analysis.kind = "return"
     /\ ContactHits(LabelOf(snap)) # {}
     /\ LaterHit(LabelOf(snap))) =>
        analysis.value.field_type = Rules[FirstOf(ContactHits(LabelOf(snap)))].ft

\* C3: for a snapshot whose label or role holds a password-like keyword,
\* analyze_context followed by generate_content returns "******" and no
\* generate_text call is issued in either step.
C3_PasswordSuppressed ==
    (phase = "generated" /\ PasswordLike(snap)) =>
        /\ content = Ret(PasswordPlaceholder)
        /\ llmCalls = 0

\* C4: the bridge, given fieldLabel "Email" and empty surrounding text, with a
\* profile whose basic.email is non-empty, returns exactly basic.email.
C4_EmailScenario ==
    (/\ phase = "bridged"
     /\ snap.title = Str("Email")
     /\ snap.surrounding_text = Str("")
     /\ Truthy(profile.basic.v.email)) =>
        bridgeOut = Ret(profile.basic.v.email.v)

\* The value the index-0 work entry holds for the field type's key.
RecentJobValue(field_type) ==
    DictGet(profile.work_experience.v[1].v, ProfileMap[field_type][2].v, None)

\* C6: for field_type "Job Title" or "Company Name" and a profile with one or
\* more work entries, generate_content returns the value of the index-0 entry
\* when it is non-empty, and falls through to model-backed generation when
\* that value is absent or empty.
C6_MostRecentJob ==
    (/\ phase = "resolved"
     /\ DictGet(analysis.value, "field_type", "Generic Text") \in {"Job Title", "Company Name"}
     /\ "work_experience" \in DOMAIN profile
     /\ profile.work_experience.t = "list"
     /\ Len(profile.work_experience.v) >= 1) =>
        IF Truthy(RecentJobValue(analysis.value.field_type))
        THEN content = Ret(RecentJobValue(analysis.value.field_type).v)
        ELSE llmCalls = 1

\* The completion backend of the trigger fails: no client, or the request
\* ends in an authentication, rate-limit or transport error.
BackendFails(env) ==
    /\ env.provider # "none"
    /\ \/ env.provider = "openai" /\ ~env.client
       \/ env.backend \in {"auth", "ratelimit", "timeout"}

\* C11: when resolution reaches model-backed generation and the backend
\* fails, generate_content returns a non-empty string.
C11_BackendFailureIsVisible ==
    (phase = "resolved" /\ llmCalls = 1 /\ BackendFails(llmEnv)) =>
        content.kind = "return" /\ content.value # ""

\* The headings get_profile_summary puts before its sections.
SectionHeadings ==
    {"Basic Information", "Education", "Work Experience", "Skills", "Projects",
     "Portfolio"}

\* C23: the summary generate_content computes from the default skeleton and
\* hands to generate_text holds none of the section headings.
C23_EmptySectionsSuppressed ==
    (profile = DefaultProfile /\ llmContext # Absent) =>
        ~AnyIn(SectionHeadings, llmContext.v)

\* The last thing a trigger showed the user.
LastShown == ui.shown[Len(ui.shown)]

\* The trigger found the permission missing, or no focused element.
FailedCheck ==
    /\ phase = "filled"
    /\ ~ui.permissions_granted \/ "error" \in DOMAIN snap

\* C24: a trigger that finds the accessibility permission missing, or whose
\* get_focused_element_info reports an error, shows one message and ends
\* without calling analyze_context, generate_content, generate_text or
\* insert_text.
C24_FailedCheckEndsTrigger ==
    FailedCheck =>
        /\ ui.called = {} /\ llmCalls = 0 /\ ui.inserted = Absent
        /\ analysis = NoResult /\ content = NoResult
        /\ ui.shown \in {<<Alert("Permissions Required")>>, <<Notify("Context Error")>>}

C24_Witness ==
    /\ FailedCheck /\ ui.permissions_granted /\ snap = NoFocus
    /\ ui.shown = <<Notify("Context Error")>>

\* The completion backend of the trigger answers with an authentication or
\* a rate-limit failure.
AuthOrRateLimit(env) ==
    env.provider = "openai" /\ env.client /\ env.backend \in {"auth", "ratelimit"}

ClassifiedPassword ==
    /\ phase = "filled" /\ analysis.kind = "return"
    /\ "field_type" \in DOMAIN analysis.value
    /\ analysis.value.field_type = "Password"

\* C26: a trigger whose classification has field_type "Password" never calls
\* insert_text and ends with an alert.
C26_PasswordNeverInserted ==
    ClassifiedPassword =>
        /\ ui.inserted = Absent /\ "insert_text" \notin ui.called
        /\ LastShown = Alert("Password field detected")

C26_Witness ==
    /\ ClassifiedPassword /\ content = Ret(PasswordPlaceholder)
    /\ LastShown.kind = "alert"

\* The profile holds one or more work entries.
HasWork ==
    /\ "work_experience" \in DOMAIN profile
    /\ profile.work_experience.t = "list"
    /\ Len(profile.work_experience.v) >= 1

\* "<title> at <company> (<period>)", then one bullet line per highlight
RenderedJob(job) ==
    Field(job, "title") \o " at " \o Field(job, "company")
    \o " (" \o Field(job, "period") \o ")\n"
    \o Join([i \in 1..Len(job.v.highlights.v) |->
                Bullet \o " " \o ToStr(job.v.highlights.v[i])], "\n")

\* C12: for field_type "Work Experience" and a profile with one or more work
\* entries, generate_content returns the entries in stored order, each as its
\* header line followed by its bullet lines, separated by a blank line.
C12_WorkExperienceRendered ==
    (/\ phase = "resolved"
     /\ DictGet(analysis.value, "field_type", "Generic Text") = "Work Experience"
     /\ HasWork) =>
        content = Ret(Join([i \in 1..Len(profile.work_experience.v) |->
                              RenderedJob(profile.work_experience.v[i])], "\n\n"))

\* What a bridge script may leave on stdout: the text it resolved when nothing
\* failed, one line that starts with "Error:" when something did.
StdoutAllowed(run) ==
    /\ Len(run.stdout) = 1
    /\ IF run.failed
       THEN Prefix(run.stdout[1], 6) = "Error:"
       ELSE run.returned.kind = "return" /\ run.stdout[1] = run.returned.value

\* C15: a run of a bridge script writes to stdout the resolved text and nothing
\* else on success, and a string beginning with "Error:" on every failure.
C15_StdoutIsResultOrError == bridgeRun # Absent => StdoutAllowed(bridgeRun)

\* The runs of autofill_bridge.py alone keep to it.
AutofillBridgeStdoutClean ==
    (bridgeRun # Absent /\ bridgeRun.script = "autofill_bridge") => StdoutAllowed(bridgeRun)

\* The field types profile_map sends to one value of a mapping section.
DirectScalarTypes ==
    {"Email Address", "Phone Number", "Full Name", "Street Address", "City",
     "State/Province", "Country", "Website"}

\* The field type generate_content was called with.
ResolvedType == DictGet(analysis.value, "field_type", "Generic Text")

\* data.get(section, {}).get(key) for a field type of the direct table
MappedValue(field_type) ==
    DictGet(DictGet(profile, ProfileMap[field_type][1], EmptyDict).v,
            ProfileMap[field_type][2].v, None)

\* C17: for a field type of the direct scalar table, generate_content returns
\* str(value) when the mapped profile value is non-empty, and goes on to
\* model-backed generation, returning no empty string, when it is empty or
\* missing.
C17_DirectScalarOrGeneration ==
    (phase = "resolved" /\ ResolvedType \in DirectScalarTypes) =>
        IF Truthy(MappedValue(ResolvedType))
        THEN content = Ret(ToStr(MappedValue(ResolvedType))) /\ llmCalls = 0
        ELSE llmCalls = 1 /\ content # Ret("")

\* An empty e-mail address and a missing portfolio section: generation is
\* reached.
C17_Witness ==
    /\ phase = "resolved" /\ llmCalls = 1
    /\ \/ ResolvedType = "Email Address" /\ profile = DefaultProfile
       \/ ResolvedType = "Website" /\ profile = PartialProfile

CompositeTypes == {"Education", "Work Experience", "Skills", "Projects", "Profile Summary"}

\* Nothing is stored under the section: it is absent, None, or empty.
SectionEmpty(section) ==
    section \notin DOMAIN profile \/ ~Truthy(profile[section])

\* No category of the skills mapping holds a skill.
SkillsAllEmpty ==
    /\ "skills" \in DOMAIN profile /\ profile.skills.t = "dict"
    /\ \A c \in DOMAIN profile.skills.v : ~Truthy(profile.skills.v[c])

\* The source of a composite field type holds nothing to render.
SourceEmpty(field_type) ==
    CASE field_type = "Skills" -> SectionEmpty("skills") \/ SkillsAllEmpty
      [] field_type = "Profile Summary" -> SectionEmpty("basic")
      [] OTHER -> SectionEmpty(ProfileMap[field_type][1])

\* C18: for a composite field type whose source section is absent or empty,
\* generate_content returns no empty string and goes on to model-backed
\* generation.
C18_EmptyCompositeFallsThrough ==
    (phase = "resolved" /\ ResolvedType \in CompositeTypes /\ SourceEmpty(ResolvedType)) =>
        llmCalls = 1 /\ content # Ret("")

\* resume_context of the snapshot (lines 963-977)
ResumeContext(info) == AnyIn(ResumeKeywords, Lower(TextOf(info)))

\* The first rule of _simple_field_analysis that matches the snapshot.
MatchedRule(info) ==
    Rules[FirstOf({i \in 1..Len(Rules) :
                     RuleMatches(Rules[i], Lower(LabelOf(info)), Lower(RoleOf(info)),
                                 ResumeContext(info))})]

\* C19: the result of a matched rule carries the content_type written in the
\* rule (the resume-context one or the other), style "Professional", and the
\* length written in the rule, "Medium" when it writes none.
C19_RuleAssignsContentType ==
    (phase = "analyzed" /\ RuleMatched(snap)) =>
        /\ analysis.kind = "return"
        /\ MatchedRule(snap).ct # <<>> =>
              analysis.value.content_type =
                  IF ResumeContext(snap) THEN MatchedRule(snap).ct[1]
                  ELSE MatchedRule(snap).ct[2]
        /\ analysis.value.recommended_style = "Professional"
        /\ analysis.value.recommended_length =
              IF MatchedRule(snap).len # "" THEN MatchedRule(snap).len ELSE "Medium"

\* The generate_text call of the model-backed pass raises, or returns a string
\* that holds no JSON object with the four keys.
ModelPassFails(env) ==
    LET r == GenerateText(env, "analysis prompt")
    IN  \/ r.kind = "raise"
        \/ JsonObjectIn(r.value).t # "dict"
        \/ ~(AnalysisKeys \subseteq DOMAIN JsonObjectIn(r.value).v)

\* No rule matched the snapshot and the model-backed pass was run.
FellToModelPass == phase = "analyzed" /\ TextReadable(snap) /\ ~RuleMatched(snap)

\* C20: when no rule matches and the model-backed pass fails, analyze_context
\* returns the fallback: field_type the raw label ("Generic Text" when there
\* is none), content_type "Unknown", style "Professional", length "Medium".
C20_FailedPassGivesFallback ==
    (FellToModelPass /\ ModelPassFails(llmEnv)) =>
        /\ llmCalls = 1
        /\ analysis =
             Ret([content_type |-> "Unknown",
                  field_type |-> IF LabelOf(snap) = "Unknown" THEN "Generic Text"
                                 ELSE LabelOf(snap),
                  recommended_style |-> "Professional",
                  recommended_length |-> "Medium"])

\* A snapshot without a label, a backend that times out: "Generic Text".
C20_Witness ==
    /\ FellToModelPass /\ ModelPassFails(llmEnv)
    /\ llmEnv.backend = "timeout"
    /\ "title" \notin DOMAIN snap
    /\ analysis.kind = "return" /\ analysis.value.field_type = "Generic Text"

\* C9: generate_content returns a string and lets no exception propagate,
\* for every classification result, profile and backend outcome.
C9_ResolverNeverRaises ==
    phase \in {"generated", "resolved"} => content.kind = "return"

\* C10: analyze_context returns a result holding the four keys and never
\* raises, for every snapshot (attributes present, absent or null) and
\* every backend outcome.
C10_ClassifierNeverRaises ==
    phase = "analyzed" =>
        /\ analysis.kind = "return"
        /\ AnalysisKeys \subseteq DOMAIN analysis.value

-----------------------------------------------------------------------------
(* EncryptionManager: the key file and the cipher *)

\* A byte string holding key material: the 32 random bytes numbered `id`
\* under `layers` successive urlsafe-base64 encodings.
KeyBytes(id, layers) == [id |-> id, layers |-> layers]

\* len(base64.urlsafe_b64encode(b)) for len(b) = n
B64Len(n) == 4 * ((n + 2) \div 3)

RECURSIVE BytesLen(_)
\* len(b)
BytesLen(b) ==
    IF b.layers = 0 THEN 32
    ELSE B64Len(BytesLen(KeyBytes(b.id, b.layers - 1)))

\* b.endswith(b"="): base64 pads when the encoded length is no multiple of 3
EndsWithPad(b) == b.layers > 0 /\ BytesLen(KeyBytes(b.id, b.layers - 1)) % 3 # 0

B64Encode(b) == KeyBytes(b.id, b.layers + 1)
B64Decode(b) == KeyBytes(b.id, b.layers - 1)

\* Fernet.generate_key(): base64 of 32 fresh random bytes
FernetGenerateKey(n) == B64Encode(KeyBytes(n, 0))

\* Fernet(key) accepts the base64 encoding of 32 bytes and raises ValueError
\* on anything else.
FernetAccepts(key) == key.layers >= 1 /\ BytesLen(B64Decode(key)) = 32

\* EncryptionManager._generate_new_key
GenerateNewKey(n) ==
    [key |-> FernetGenerateKey(n),
     keyFile |-> B64Encode(FernetGenerateKey(n)),
     nextKey |-> n + 1]

\* EncryptionManager._get_or_create_key
GetOrCreateKey(kf, n) ==
    IF kf # Absent
    THEN IF BytesLen(kf) = 44 /\ EndsWithPad(kf)
         THEN [key |-> B64Decode(kf), keyFile |-> kf, nextKey |-> n]
         ELSE GenerateNewKey(n)
    ELSE GenerateNewKey(n)

\* json.dumps(data) and json.loads(text) on str-keyed dicts of JSON values
JsonDumps(data) == [json |-> data]
JsonLoads(text) == text.json

\* EncryptionManager.encrypt: a Fernet token, readable under the same key only
Encrypt(key, text) == [t |-> "token", key |-> key.id, text |-> text]

\* EncryptionManager.decrypt: None on a token of another key and on a value
\* that is no str (both exceptions are caught inside decrypt)
Decrypt(key, x) ==
    IF x.t = "token" /\ x.key = key.id THEN x.text ELSE None

-----------------------------------------------------------------------------
(* UserProfile: construction, save and update *)

\* A profile file json.load cannot decode.
Corrupt == [t |-> "corrupt"]

\* UserProfile.save on data held under `key`; st = [files, saved]
Save(pid, key, data, st) ==
    IF DOMAIN data = {}
    THEN [ok |-> FALSE, files |-> st.files, saved |-> st.saved]
    ELSE [ok |-> TRUE,
          files |-> [st.files EXCEPT ![pid] =
                        [profile_id |-> Str(pid),
                         data |-> Encrypt(key, JsonDumps(data))]],
          saved |-> [st.saved EXCEPT ![pid] = data]]

\* The (data, store) pair a load ends with.
Loaded(data, files, savedData) == [data |-> data, files |-> files, saved |-> savedData]

\* _create_default_profile without its save(): the skeleton in memory only
CreateDefaultUnsaved(pid, key, st) == Loaded(DefaultProfile, st.files, st.saved)

\* UserProfile._create_default_profile
AfterDefaultSave(s) == Loaded(DefaultProfile, s.files, s.saved)
CreateDefaultProfile(pid, key, st) == AfterDefaultSave(Save(pid, key, DefaultProfile, st))

\* Lines 217-235: the decrypted JSON when there is one, else the default
AfterDecrypt(pid, key, st, decrypted_json) ==
    IF decrypted_json # None
    THEN Loaded(JsonLoads(decrypted_json), st.files, st.saved)
    ELSE CreateDefaultProfile(pid, key, st)

\* Lines 210-235
LoadEncrypted(pid, key, st, encrypted_data) ==
    IF encrypted_data.t # "token" /\ ~Truthy(encrypted_data)
    THEN CreateDefaultProfile(pid, key, st)
    ELSE AfterDecrypt(pid, key, st, Decrypt(key, encrypted_data))

\* Lines 195-251 on the file f of the profile id
LoadFile(pid, key, st, f) ==
    IF f = Absent \/ f = Corrupt THEN CreateDefaultProfile(pid, key, st)
    ELSE IF "version" \in DOMAIN f /\ "data" \in DOMAIN f /\ f.data.t = "dict"
    THEN Loaded(f.data.v, st.files, st.saved)
    ELSE LoadEncrypted(pid, key, st, DictGet(f, "data", None))

\* UserProfile._load_profile
LoadProfile(pid, key, st) == LoadFile(pid, key, st, st.files[pid])

\* Lines 168-183: the direct read of the default profile's file succeeds
DirectLoadable(pid, f) ==
    /\ pid = "default"
    /\ f # Absent /\ f # Corrupt
    /\ "data" \in DOMAIN f /\ f.data.t = "dict"

\* UserProfile.__init__ once the cipher is built
InitData(pid, key, st) ==
    IF DirectLoadable(pid, st.files[pid])
    THEN Loaded(st.files[pid].data.v, st.files, st.saved)
    ELSE LoadProfile(pid, key, st)

RECURSIVE SplitComma(_, _)
\* value.split(","); cur is the part being read
SplitComma(s, cur) ==
    IF s = "" THEN <<cur>>
    ELSE IF SubSeq(s, 1, 1) = "," THEN <<cur>> \o SplitComma(Tail(s), "")
    ELSE SplitComma(Tail(s), cur \o SubSeq(s, 1, 1))

NonEmpty(s) == s # ""

\* [s.strip() for s in value.split(",") if s.strip()]
SplitSkills(value) ==
    LET parts == SplitComma(value, "")
        kept == SelectSeq([i \in 1..Len(parts) |-> Strip(parts[i])], NonEmpty)
    IN  List([i \in 1..Len(kept) |-> Str(kept[i])])

\* Lines 321-337: the value update() assigns to data[section][key]
Assigned(old, key, value) ==
    IF old.t = "list" /\ value.t = "str" /\ key = "skills"
    THEN SplitSkills(value.v)
    ELSE value

\* Lines 317-318
WithSection(data, section) ==
    IF section \in DOMAIN data THEN data ELSE (section :> EmptyDict) @@ data

\* Lines 317-337 on data that holds the section: 'list' object has no
\* attribute 'get' when the section is no mapping
UpdateIn(data, section, key, value) ==
    IF data[section].t # "dict"
    THEN [raised |-> TRUE, data |-> data]
    ELSE [raised |-> FALSE,
          data |-> [data EXCEPT ![section] =
                      Dict((key :> Assigned(DictGet(data[section].v, key, None), key, value))
                           @@ data[section].v)]]

\* UserProfile.update up to its closing save()
UpdateData(data, section, key, value) ==
    UpdateIn(WithSection(data, section), section, key, value)

-----------------------------------------------------------------------------
(* The profile store: instances built, updated and saved over one directory *)

ProfileIds == {"default", "work"}

MaxKeys == 3

\* A profile file in the plain format, with and without its version entry
PlainFile(data) == [version |-> Str("1.0"), data |-> Dict(data)]
BareFile(data) == [profile_id |-> Str("default"), data |-> Dict(data)]

InitialFiles ==
    {Absent, Corrupt, PlainFile(PartialProfile), BareFile(FilledProfile),
     [profile_id |-> Str("default")]}

UpdateArgs ==
    {<<"basic", "name", Str("{u5f20}{u4e09}")>>,
     <<"skills", "skills", List(<<Str("Go")>>)>>,
     <<"skills", "skills", Str("Go, Rust ,,")>>,
     <<"skills", "hardware", Str("FPGA")>>,
     <<"work_experience", "title", Str("Engineer")>>,
     <<"links", "github", Str("ada")>>}

ProfileInit ==
    /\ profile = DefaultProfile
    /\ FillIdle
    /\ config = Absent /\ configFile = Absent /\ keyring = <<>>
    /\ keyFile = Absent /\ nextKey = 1
    /\ profFile \in [ProfileIds -> InitialFiles]
    /\ inst = Absent
    /\ saved = [p \in ProfileIds |-> Absent]
    /\ lastOp = [op |-> "none"]

\* UserProfile(profile_id): a new EncryptionManager, then the load
UserProfileInit(pid) ==
    /\ nextKey <= MaxKeys
    /\ \E k \in {GetOrCreateKey(keyFile, nextKey)} :
         /\ keyFile' = k.keyFile
         /\ nextKey' = k.nextKey
         /\ IF FernetAccepts(k.key)
            THEN \E l \in {InitData(pid, k.key, [files |-> profFile, saved |-> saved])} :
                   /\ inst' = [profile_id |-> pid, key |-> k.key, data |-> l.data]
                   /\ profFile' = l.files
                   /\ saved' = l.saved
                   /\ lastOp' = [op |-> "init", pid |-> pid, raised |-> FALSE,
                                 found |-> profFile[pid] # Absent]
            ELSE /\ inst' = Absent
                 /\ UNCHANGED <<profFile, saved>>
                 /\ lastOp' = [op |-> "init", pid |-> pid, raised |-> TRUE,
                                 found |-> profFile[pid] # Absent]
    /\ UNCHANGED <<fillVars, configVars>>

\* user_profile.save()
SaveCall ==
    /\ inst # Absent
    /\ \E s \in {Save(inst.profile_id, inst.key, inst.data,
                      [files |-> profFile, saved |-> saved])} :
         /\ profFile' = s.files
         /\ saved' = s.saved
         /\ lastOp' = [op |-> "save", ok |-> s.ok]
    /\ UNCHANGED <<fillVars, configVars, keyFile, nextKey, inst>>

\* user_profile.update(section, key, value)
UpdateCall(section, key, value) ==
    /\ inst # Absent
    /\ \E u \in {UpdateData(inst.data, section, key, value)} :
         IF u.raised
         THEN /\ lastOp' = [op |-> "update", raised |-> TRUE]
              /\ UNCHANGED <<inst, profFile, saved>>
         ELSE \E s \in {Save(inst.profile_id, inst.key, u.data,
                             [files |-> profFile, saved |-> saved])} :
                /\ inst' = [inst EXCEPT !.data = u.data]
                /\ profFile' = s.files
                /\ saved' = s.saved
                /\ lastOp' = [op |-> "update", raised |-> FALSE, ok |-> s.ok]
    /\ UNCHANGED <<fillVars, configVars, keyFile, nextKey>>

ProfileNext ==
    \/ \E pid \in ProfileIds : UserProfileInit(pid)
    \/ SaveCall
    \/ \E a \in UpdateArgs : UpdateCall(a[1], a[2], a[3])

ProfileSpec == ProfileInit /\ [][ProfileNext]_vars

\* C5: loading a profile id in a new UserProfile instance, after a save() of
\* that id went through, yields in-memory data equal to the data saved.
C5_SaveLoadRoundTrip ==
    [][\A pid \in ProfileIds :
          (/\ lastOp'.op = "init" /\ lastOp'.pid = pid /\ ~lastOp'.raised
           /\ saved[pid] # Absent)
          => inst'.data = saved[pid]]_vars

\* The last operation built a UserProfile and found no file for its id.
BuiltWithoutFile == lastOp.op = "init" /\ ~lastOp.raised /\ ~lastOp.found

\* C13: constructing a UserProfile for an id that has no profile file leaves
\* the default skeleton in memory and, by the time the constructor returns, a
\* profile file for that id whose payload is that skeleton.
C13_MissingFileIsCreated ==
    BuiltWithoutFile =>
        /\ inst.data = DefaultProfile
        /\ profFile[lastOp.pid] \notin {Absent, Corrupt}
        /\ profFile[lastOp.pid].profile_id = Str(lastOp.pid)
        /\ Decrypt(inst.key, profFile[lastOp.pid].data) = JsonDumps(DefaultProfile)

C13_Witness ==
    /\ BuiltWithoutFile /\ lastOp.pid = "work"
    /\ inst.profile_id = "work" /\ inst.data = DefaultProfile
    /\ saved["work"] = DefaultProfile

TopLevelKeys ==
    {"basic", "education", "work_experience", "projects", "skills", "portfolio"}

\* C14: after a load that went through, whatever the file held, the data in
\* memory has all six top-level keys.
C14_LoadedDataHasAllKeys ==
    (lastOp.op = "init" /\ ~lastOp.raised) => TopLevelKeys \subseteq DOMAIN inst.data

\* The file is a container whose payload is a mapping, not a ciphertext.
MappingPayload(f) ==
    /\ f \notin {Absent, Corrupt}
    /\ "data" \in DOMAIN f
    /\ f.data.t = "dict" /\ Truthy(f.data)

\* C21: when the payload of a profile file cannot be decrypted but is a
\* structured mapping, loading that profile id takes the payload as the
\* profile in memory instead of the default skeleton.
C21_MappingPayloadAccepted ==
    [][\A pid \in ProfileIds :
          (/\ lastOp'.op = "init" /\ lastOp'.pid = pid /\ ~lastOp'.raised
           /\ MappingPayload(profFile[pid]))
          => inst'.data = profFile[pid].data.v]_vars

\* data.get(section, {}).get(key) where the section is a mapping, else None
StoredField(data, section, key) ==
    IF section \in DOMAIN data /\ data[section].t = "dict"
    THEN DictGet(data[section].v, key, None)
    ELSE None

\* What update is to store: the trimmed non-empty parts when the field holds
\* a list and the value is a string, the value itself otherwise.
ExpectedStored(old, value) ==
    IF old.t = "list" /\ value.t = "str" THEN SplitSkills(value.v) ELSE value

\* C22: update(section, key, value) creates the section when absent, stores
\* the list of trimmed non-empty parts when the field holds a list and the
\* value is a comma-separated string (for every list-typed field) and the
\* value as given otherwise, and has the profile on disk when it returns.
C22_UpdateStoresAndSaves ==
    [][\A a \in UpdateArgs :
          UpdateCall(a[1], a[2], a[3]) =>
              /\ ~lastOp'.raised
              /\ StoredField(inst'.data, a[1], a[2])
                    = ExpectedStored(StoredField(inst.data, a[1], a[2]), a[3])
              /\ Decrypt(inst'.key, profFile'[inst'.profile_id].data)
                    = JsonDumps(inst'.data)]_vars

\* C27: a construction that finds the key file in place leaves the file as
\* it is and works with the key the instance before it worked with.
C27_KeyFileKept ==
    [][\A pid \in ProfileIds :
          (UserProfileInit(pid) /\ keyFile # Absent /\ inst # Absent) =>
              /\ keyFile' = keyFile
              /\ inst' # Absent
              /\ inst'.key = inst.key]_vars

-----------------------------------------------------------------------------
(* ConfigManager: the configuration file, its defaults and the credential *)

APP_VERSION == "0.1.0"

\* Numbers of the configuration, kept apart from strings
IntVal(n) == [t |-> "int", v |-> n]
FloatVal(digits) == [t |-> "float", v |-> digits]

\* ConfigManager._get_default_structure
DefaultStructure ==
    [app_version |-> Str(APP_VERSION),
     llm |-> Dict([provider |-> Str("openai"),
                   api_key_stored |-> Bool(FALSE),
                   model |-> Str("gpt-4o"),
                   ollama_base_url |-> Str("http://localhost:11434"),
                   ollama_model |-> Str("llama3"),
                   temperature |-> FloatVal("0.7"),
                   max_tokens |-> IntVal(1500)]),
     ui |-> Dict([theme |-> Str("system"), shortcut |-> Str("Cmd+Shift+F"),
                  show_animations |-> Bool(TRUE)]),
     active_profile |-> Str("default"),
     templates |-> Dict([default_reply |->
         Str("Thank you for your message. I will get back to you soon.")]),
     privacy |-> Dict([local_processing_preferred |-> Bool(FALSE),
                       anonymize_sensitive_data |-> Bool(TRUE)]),
     accessibility |-> Dict([permissions_granted |-> Bool(FALSE)])]

\* k in x, for the x that support it
KeyIn(x, k) ==
    CASE x.t = "dict" -> k \in DOMAIN x.v
      [] x.t = "str" -> Contains(x.v, k)
      [] x.t = "list" -> \E i \in 1..Len(x.v) : x.v[i] = Str(k)

\* k in x raises TypeError
InRaises(x) == x.t \notin {"dict", "str", "list"}

\* Lines 516-517 raise: the llm entry cannot be searched, or holds "api_key"
\* and is no mapping to delete it from
StripRaises(cts) ==
    /\ "llm" \in DOMAIN cts.v
    /\ \/ InRaises(cts.v.llm)
       \/ (KeyIn(cts.v.llm, "api_key") /\ cts.v.llm.t # "dict")

\* Lines 516-517: del config_to_save["llm"]["api_key"]
StripApiKey(cts) ==
    IF "llm" \in DOMAIN cts.v /\ KeyIn(cts.v.llm, "api_key")
    THEN Dict([cts.v EXCEPT !.llm =
                 Dict([k \in DOMAIN cts.v.llm.v \ {"api_key"} |-> cts.v.llm.v[k]])])
    ELSE cts

\* ConfigManager.save_config(config_data) with self.config = cfg:
\* config_data replaces self.config when it is truthy, and the deletion acts
\* on the object that is written.
SaveConfig(cfg, file, config_data) ==
    IF Truthy(config_data)
    THEN IF StripRaises(config_data)
         THEN [raised |-> TRUE, ok |-> FALSE, config |-> cfg, file |-> file]
         ELSE [raised |-> FALSE, ok |-> TRUE, config |-> StripApiKey(config_data),
               file |-> JsonDumps(StripApiKey(config_data))]
    ELSE IF StripRaises(cfg)
         THEN [raised |-> TRUE, ok |-> FALSE, config |-> cfg, file |-> file]
         ELSE [raised |-> FALSE, ok |-> TRUE, config |-> StripApiKey(cfg),
               file |-> JsonDumps(StripApiKey(cfg))]

\* Lines 456-464 raise TypeError on what was loaded
BackfillRaises(loaded) ==
    \/ loaded.t # "dict"
    \/ \E section \in DOMAIN DefaultStructure \cap DOMAIN loaded.v :
         /\ DefaultStructure[section].t = "dict"
         /\ loaded.v[section].t # "dict"
         /\ \/ InRaises(loaded.v[section])
            \/ \E key \in DOMAIN DefaultStructure[section].v :
                 ~KeyIn(loaded.v[section], key)

\* Lines 457-464 for one section
BackfillSection(loaded, section) ==
    IF section \notin DOMAIN loaded.v THEN DefaultStructure[section]
    ELSE IF section \notin DOMAIN DefaultStructure THEN loaded.v[section]
    ELSE IF DefaultStructure[section].t = "dict" /\ loaded.v[section].t = "dict"
    THEN Dict(loaded.v[section].v @@ DefaultStructure[section].v)
    ELSE loaded.v[section]

\* Lines 456-468: the loaded config with defaults and the version filled in
Backfilled(loaded) ==
    Dict([[section \in DOMAIN loaded.v \cup DOMAIN DefaultStructure |->
              BackfillSection(loaded, section)]
          EXCEPT !.app_version = Str(APP_VERSION)])

\* ConfigManager._ensure_defaults with the sections alone backfilled
EnsureSectionsOnly(loaded, file) ==
    IF BackfillRaises(loaded)
    THEN [raised |-> TRUE, ok |-> FALSE, config |-> Absent, file |-> file]
    ELSE IF DOMAIN DefaultStructure \subseteq DOMAIN loaded.v
    THEN [raised |-> FALSE, ok |-> TRUE, config |-> loaded, file |-> file]
    ELSE SaveConfig(Absent, file, Dict(loaded.v @@ DefaultStructure))

\* ConfigManager._ensure_defaults(loaded_config), the file holding `file`
EnsureDefaults(loaded, file) ==
    IF BackfillRaises(loaded)
    THEN [raised |-> TRUE, ok |-> FALSE, config |-> Absent, file |-> file]
    ELSE IF Backfilled(loaded) = loaded
    THEN [raised |-> FALSE, ok |-> TRUE, config |-> loaded, file |-> file]
    ELSE SaveConfig(Absent, file, Backfilled(loaded))

\* ConfigManager._create_default_config
CreateDefaultConfig(file) == SaveConfig(Absent, file, Dict(DefaultStructure))

\* Lines 439-447 once _ensure_defaults is through
AfterEnsure(e, file) == IF e.raised THEN CreateDefaultConfig(file) ELSE e

\* ConfigManager._load_config
LoadConfig(file) ==
    IF file = Absent \/ file = Corrupt THEN CreateDefaultConfig(file)
    ELSE AfterEnsure(EnsureDefaults(JsonLoads(file), file), file)

\* ConfigManager.get(section, key)
Get(cfg, section, key) ==
    IF section \in DOMAIN cfg.v /\ cfg.v[section].t = "dict"
    THEN DictGet(cfg.v[section].v, key, None)
    ELSE None

\* f"{self.get('llm', 'provider')}_api_key"
KeyringName(cfg) == ToStr(Get(cfg, "llm", "provider")) \o "_api_key"

\* self.config[section][key] = value
Assign(cfg, section, key, value) ==
    Dict([cfg.v EXCEPT ![section] = Dict((key :> value) @@ cfg.v[section].v)])

\* Lines 543-544
WithConfigSection(cfg, section) ==
    IF section \in DOMAIN cfg.v THEN cfg ELSE Dict((section :> EmptyDict) @@ cfg.v)

\* What a set() call leaves: st = [config, file, keyring]
SetResult(raised, ok, cfg, file, ring) ==
    [raised |-> raised, ok |-> ok, config |-> cfg, file |-> file, keyring |-> ring]

\* The outcome of the save_config() that closes a set()
FromSave(r, ring) == SetResult(r.raised, r.ok, r.config, r.file, ring)

\* Lines 581-584 and 588-591
Saving(cfg, file, ring, save) ==
    IF save THEN FromSave(SaveConfig(cfg, file, None), ring)
    ELSE SetResult(FALSE, TRUE, cfg, file, ring)

\* keyring.delete_password(APP_NAME, name)
Deleted(ring, name) == [n \in DOMAIN ring \ {name} |-> ring[n]]

\* ConfigManager.set with the credential treated as any other key
SetPlainIn(cfg, file, ring, section, key, value, save, ringOk) ==
    IF cfg.v[section].t # "dict"
    THEN SetResult(TRUE, FALSE, cfg, file, ring)
    ELSE Saving(Assign(cfg, section, key, value), file, ring, save)

\* Lines 547-584 when config["llm"] takes no item assignment: the keyring
\* call is made, then TypeError is caught with the other keyring failures
SetApiKeyUnflagged(cfg, file, ring, value, save, ringOk) ==
    IF Truthy(value)
    THEN SetResult(FALSE, FALSE, cfg, file,
                   IF ringOk THEN (KeyringName(cfg) :> value.v) @@ ring ELSE ring)
    ELSE Saving(cfg, file,
                IF ringOk THEN Deleted(ring, KeyringName(cfg)) ELSE ring, save)

\* Lines 547-584 with a clear branch that neither deletes nor resets the flag
SetApiKeyNoClear(cfg, file, ring, value, save, ringOk) ==
    IF Truthy(value) /\ ringOk /\ cfg.v.llm.t = "dict"
    THEN Saving(Assign(cfg, "llm", "api_key_stored", Bool(TRUE)), file,
                (KeyringName(cfg) :> value.v) @@ ring, save)
    ELSE Saving(cfg, file, ring, save)

\* Lines 547-584: the credential goes to the keyring, the flag to the config
SetApiKey(cfg, file, ring, value, save, ringOk) ==
    IF cfg.v.llm.t # "dict"
    THEN SetApiKeyUnflagged(cfg, file, ring, value, save, ringOk)
    ELSE IF Truthy(value)
    THEN IF ringOk
         THEN Saving(Assign(cfg, "llm", "api_key_stored", Bool(TRUE)), file,
                     (KeyringName(cfg) :> value.v) @@ ring, save)
         ELSE SetResult(FALSE, FALSE, cfg, file, ring)
    ELSE IF ~ringOk THEN Saving(cfg, file, ring, save)
    ELSE Saving(Assign(cfg, "llm", "api_key_stored", Bool(FALSE)), file,
                Deleted(ring, KeyringName(cfg)), save)

\* ConfigManager.set on a config that holds the section
SetIn(cfg, file, ring, section, key, value, save, ringOk) ==
    IF section = "llm" /\ key = "api_key"
    THEN SetApiKey(cfg, file, ring, value, save, ringOk)
    ELSE SetPlainIn(cfg, file, ring, section, key, value, save, ringOk)

\* ConfigManager.set with no special case for the credential
SetPlain(cfg, file, ring, section, key, value, save, ringOk) ==
    SetPlainIn(WithConfigSection(cfg, section), file, ring, section, key, value,
               save, ringOk)

\* ConfigManager.set(section, key, value, save); ringOk: the keyring backend
\* serves the call
Set(cfg, file, ring, section, key, value, save, ringOk) ==
    SetIn(WithConfigSection(cfg, section), file, ring, section, key, value,
          save, ringOk)

\* Lines 599-607: the stored key, or the flag corrected and None
KeyOrCorrect(cfg, file, ring, ringOk) ==
    IF KeyringName(cfg) \in DOMAIN ring /\ ring[KeyringName(cfg)] # ""
    THEN [value |-> Str(ring[KeyringName(cfg)]),
          after |-> SetResult(FALSE, TRUE, cfg, file, ring)]
    ELSE [value |-> None,
          after |-> Set(cfg, file, ring, "llm", "api_key_stored", Bool(FALSE),
                        TRUE, ringOk)]

\* ConfigManager.get_api_key
GetApiKey(cfg, file, ring, ringOk) ==
    IF Truthy(Get(cfg, "llm", "api_key_stored")) /\ ringOk
    THEN KeyOrCorrect(cfg, file, ring, ringOk)
    ELSE [value |-> None, after |-> SetResult(FALSE, TRUE, cfg, file, ring)]

-----------------------------------------------------------------------------
(* The settings windows: TemplateManagerWindow and LLMSettingsWindow *)

\* ConfigManager.get(section, key) with a dict as key, as in
\* get("templates", {}): a mapping section is asked for a key that cannot be
\* hashed, any other section gives None.
GetUnhashable(cfg, section) ==
    IF section \in DOMAIN cfg.v /\ cfg.v[section].t = "dict"
    THEN Raise("TypeError") ELSE Ret(None)

\* A handler that ended in an exception and changed nothing.
Unchanged(cfg, file, ring) == SetResult(TRUE, FALSE, cfg, file, ring)

\* TemplateManagerWindow.delete_template with `name` selected and the
\* question answered yes: line 2689 raises on a mapping, and line 2690
\* (name in None) on anything else.
DeleteTemplate(cfg, file, ring, name) ==
    IF GetUnhashable(cfg, "templates").kind = "raise"
    THEN Unchanged(cfg, file, ring)
    ELSE IF InRaises(GetUnhashable(cfg, "templates").value)
    THEN Unchanged(cfg, file, ring)
    ELSE SetResult(FALSE, TRUE, cfg, file, ring)

\* TemplateManagerWindow.add_template with a name and a content typed in:
\* lines 2630-2631 raise as lines 2689-2690 do.
AddTemplate(cfg, file, ring, name, template) ==
    IF GetUnhashable(cfg, "templates").kind = "raise"
    THEN Unchanged(cfg, file, ring)
    ELSE IF InRaises(GetUnhashable(cfg, "templates").value)
    THEN Unchanged(cfg, file, ring)
    ELSE Set(cfg, file, ring, "templates", name, template, TRUE, TRUE)

\* f"{provider}_api_key_test" for the provider "openai" (line 2450)
TestKeyName == "openai_api_key_test"

\* Lines 2441-2442: a key was typed into the window
TypedKey(form) == form.provider = "openai" /\ form.api_key \notin {"", "********"}

\* Lines 2432-2437: the window's fields written into the config, save=False
FormApplied(cfg, form) ==
    Assign(Assign(Assign(Assign(cfg, "llm", "provider", Str(form.provider)),
                         "llm", "model", Str(form.openai_model)),
                  "llm", "ollama_base_url", Str(form.ollama_base_url)),
           "llm", "ollama_model", Str(form.ollama_model))

\* Lines 2441-2454: the flag set for the test
FormFlagged(cfg, form) ==
    IF TypedKey(form) THEN Assign(cfg, "llm", "api_key_stored", Bool(TRUE))
    ELSE IF form.provider = "openai" /\ form.api_key = ""
    THEN Assign(cfg, "llm", "api_key_stored", Bool(FALSE))
    ELSE cfg

\* Lines 2478-2490: config.copy() is shallow, so the original shares its llm
\* mapping with the config the test worked on (now); a config without llm
\* gets one that holds the flag alone.
Restored(original, now, file, ring, form) ==
    SetResult(FALSE, TRUE,
              IF "llm" \in DOMAIN original.v
              THEN Assign(now, "llm", "api_key_stored",
                          Get(original, "llm", "api_key_stored"))
              ELSE Assign(WithConfigSection(original, "llm"), "llm", "api_key_stored",
                          None),
              file,
              IF TypedKey(form) THEN Deleted(ring, TestKeyName) ELSE ring)

\* Lines 2462-2490, given what the get_api_key of _setup_client (line 628,
\* called from LLMManager.test_connection at line 672) did.
AfterTest(original, r, form) ==
    Restored(original, r.after.config, r.after.file, r.after.keyring, form)

\* Lines 2457-2490 on the config the fields were written into
TestWith(original, flagged, file, ring, form, ringOk) ==
    IF TypedKey(form) /\ ~ringOk
    THEN Restored(original, flagged, file, ring, form)
    ELSE AfterTest(original,
                   GetApiKey(flagged, file,
                             IF TypedKey(form)
                             THEN (TestKeyName :> form.api_key) @@ ring ELSE ring,
                             ringOk),
                   form)

\* LLMSettingsWindow.test_connection; form holds the window's fields
TestConnection(cfg, file, ring, form, ringOk) ==
    IF "llm" \in DOMAIN cfg.v /\ cfg.v.llm.t # "dict"
    THEN Unchanged(cfg, file, ring)
    ELSE TestWith(cfg,
                  FormFlagged(FormApplied(WithConfigSection(cfg, "llm"), form), form),
                  file, ring, form, ringOk)

-----------------------------------------------------------------------------
(* The configuration store: managers built, settings set and saved *)

\* The credential the settings window hands to set()
Secret == "sk-live-1"

WithoutSection(cfg, section) == [k \in DOMAIN cfg \ {section} |-> cfg[k]]

WithoutKey(cfg, section, key) ==
    [cfg EXCEPT ![section] =
        Dict([k \in DOMAIN cfg[section].v \ {key} |-> cfg[section].v[k]])]

DarkTheme == [DefaultStructure EXCEPT !.ui = Dict([@.v EXCEPT !.theme = Str("dark")])]

\* What CONFIG_FILE holds at the first start
InitialConfigFiles ==
    {Absent, Corrupt,
     JsonDumps(EmptyDict),
     JsonDumps(List(<<>>)),
     JsonDumps(Dict(DarkTheme)),
     JsonDumps(Dict(WithoutSection(DarkTheme, "privacy"))),
     JsonDumps(Dict(WithoutKey(WithoutKey(DarkTheme, "llm", "max_tokens"),
                               "ui", "shortcut"))),
     JsonDumps(Dict([DarkTheme EXCEPT !.app_version = Str("0.0.9")])),
     JsonDumps(Dict([WithoutSection(DarkTheme, "templates") EXCEPT !.ui = Str("dark")]))}

SetArgs ==
    {<<"llm", "api_key", Str(Secret)>>,
     <<"llm", "api_key", None>>,
     <<"llm", "provider", Str("ollama")>>,
     <<"llm", "api_key_stored", Bool(TRUE)>>,
     <<"templates", "greeting", Str("Hello")>>,
     <<"active_profile", "name", Str("work")>>}

\* The argument of save_config: none, the templates alone (lines 2693-2695),
\* a whole config that carries the credential
SaveArgs ==
    {None,
     Dict([templates |-> EmptyDict]),
     Dict([DefaultStructure EXCEPT !.llm = Dict(("api_key" :> Str(Secret)) @@ @.v)])}

\* Names the template manager works on
TemplateNames == {"default_reply"}

\* The fields of the LLM settings window with provider pr and key field k
Form(pr, k) ==
    [provider |-> pr, api_key |-> k, openai_model |-> "gpt-4o",
     ollama_base_url |-> "http://localhost:11434", ollama_model |-> "llama3"]

\* What the fields hold when the test is asked for: the local provider
\* chosen, the key field left at its placeholder
Forms == {Form("ollama", "********")}

ConfigInit ==
    /\ profile = DefaultProfile
    /\ FillIdle
    /\ keyFile = Absent /\ nextKey = 1 /\ profFile = Absent
    /\ inst = Absent /\ saved = Absent
    /\ config = Absent
    /\ configFile \in InitialConfigFiles
    /\ keyring = <<>>
    /\ lastOp = [op |-> "none"]

\* ConfigManager(): the application or the bridge starts
ConfigManagerInit ==
    /\ \E l \in {LoadConfig(configFile)} :
         /\ config' = l.config
         /\ configFile' = l.file
    /\ lastOp' = [op |-> "load", file |-> configFile]
    /\ UNCHANGED <<fillVars, profileVars, keyring>>

\* config_manager.set(section, key, value, save)
SetCall(section, key, value, save, ringOk) ==
    /\ config # Absent
    /\ \E r \in {Set(config, configFile, keyring, section, key, value, save, ringOk)} :
         /\ config' = r.config
         /\ configFile' = r.file
         /\ keyring' = r.keyring
         /\ lastOp' = [op |-> "set", section |-> section, key |-> key,
                       value |-> value, ringOk |-> ringOk,
                       had |-> KeyringName(config) \in DOMAIN keyring,
                       raised |-> r.raised, ok |-> r.ok]
    /\ UNCHANGED <<fillVars, profileVars>>

\* config_manager.save_config(config_data)
SaveConfigCall(config_data) ==
    /\ config # Absent
    /\ \E r \in {SaveConfig(config, configFile, config_data)} :
         /\ config' = r.config
         /\ configFile' = r.file
         /\ lastOp' = [op |-> "save_config", raised |-> r.raised, ok |-> r.ok]
    /\ UNCHANGED <<fillVars, profileVars, keyring>>

\* config_manager.get_api_key()
GetApiKeyCall(ringOk) ==
    /\ config # Absent
    /\ \E r \in {GetApiKey(config, configFile, keyring, ringOk)} :
         /\ config' = r.after.config
         /\ configFile' = r.after.file
         /\ keyring' = r.after.keyring
         /\ lastOp' = [op |-> "get_api_key", value |-> r.value]
    /\ UNCHANGED <<fillVars, profileVars>>

\* The "Delete Selected" button of the template manager
DeleteTemplateCall(name) ==
    /\ config # Absent
    /\ \E r \in {DeleteTemplate(config, configFile, keyring, name)} :
         /\ config' = r.config
         /\ configFile' = r.file
         /\ lastOp' = [op |-> "delete_template", name |-> name, raised |-> r.raised]
    /\ UNCHANGED <<fillVars, profileVars, keyring>>

\* The "Add New" button of the template manager
AddTemplateCall(name, template) ==
    /\ config # Absent
    /\ \E r \in {AddTemplate(config, configFile, keyring, name, template)} :
         /\ config' = r.config
         /\ configFile' = r.file
         /\ lastOp' = [op |-> "add_template", name |-> name, raised |-> r.raised]
    /\ UNCHANGED <<fillVars, profileVars, keyring>>

\* The "Test Connection" button of the LLM settings window
TestConnectionCall(form, ringOk) ==
    /\ config # Absent
    /\ \E r \in {TestConnection(config, configFile, keyring, form, ringOk)} :
         /\ config' = r.config
         /\ configFile' = r.file
         /\ keyring' = r.keyring
         /\ lastOp' = [op |-> "test_connection", raised |-> r.raised]
    /\ UNCHANGED <<fillVars, profileVars>>

ConfigNext ==
    \/ ConfigManagerInit
    \/ \E a \in SetArgs, save \in BOOLEAN, ringOk \in BOOLEAN :
         SetCall(a[1], a[2], a[3], save, ringOk)
    \/ \E config_data \in SaveArgs : SaveConfigCall(config_data)
    \/ \E ringOk \in BOOLEAN : GetApiKeyCall(ringOk)
    \/ \E name \in TemplateNames : DeleteTemplateCall(name)
    \/ \E name \in TemplateNames : AddTemplateCall(name, Str("Hello"))
    \/ \E form \in Forms, ringOk \in BOOLEAN : TestConnectionCall(form, ringOk)

ConfigSpec == ConfigInit /\ [][ConfigNext]_vars

-----------------------------------------------------------------------------
(* Properties of the configuration store *)

\* The default sections, and the default keys of a section, a loaded file lacks
MissingSections(loaded) == DOMAIN DefaultStructure \ DOMAIN loaded.v

MissingKeys(loaded, section) ==
    IF /\ section \in DOMAIN loaded.v
       /\ loaded.v[section].t = "dict"
       /\ DefaultStructure[section].t = "dict"
    THEN DOMAIN DefaultStructure[section].v \ DOMAIN loaded.v[section].v
    ELSE {}

LacksDefaults(loaded) ==
    /\ loaded.t = "dict"
    /\ \/ MissingSections(loaded) # {}
       \/ \E section \in DOMAIN DefaultStructure : MissingKeys(loaded, section) # {}

\* The last operation loaded a decodable file.
LoadedFile == lastOp.op = "load" /\ lastOp.file \notin {Absent, Corrupt}

\* C7: after loading a config file that lacks a default section, or a default
\* key of a section it holds, every section and key of the default structure
\* is in the in-memory config, the ones the file lacked with their default
\* values, and the file on disk holds the backfilled config.
C7_LoadBackfillsDefaults ==
    (LoadedFile /\ LacksDefaults(JsonLoads(lastOp.file))) =>
        /\ \A section \in DOMAIN DefaultStructure :
             /\ section \in DOMAIN config.v
             /\ section \in MissingSections(JsonLoads(lastOp.file))
                   => config.v[section] = DefaultStructure[section]
             /\ DefaultStructure[section].t = "dict" =>
                  /\ config.v[section].t = "dict"
                  /\ \A key \in DOMAIN DefaultStructure[section].v :
                       /\ key \in DOMAIN config.v[section].v
                       /\ key \in MissingKeys(JsonLoads(lastOp.file), section)
                             => config.v[section].v[key] = DefaultStructure[section].v[key]
        /\ configFile = JsonDumps(config)

C7_Witness ==
    /\ LoadedFile
    /\ "privacy" \in MissingSections(JsonLoads(lastOp.file))
    /\ config.v.privacy = DefaultStructure.privacy
    /\ config.v.ui.v.theme = Str("dark")
    /\ "privacy" \in DOMAIN JsonLoads(configFile).v

RECURSIVE Holds(_, _)
\* The string s occurs in a str of the value x.
Holds(x, s) ==
    CASE x.t = "str" -> Contains(x.v, s)
      [] x.t = "dict" -> \E k \in DOMAIN x.v : Holds(x.v[k], s)
      [] x.t = "list" -> \E i \in 1..Len(x.v) : Holds(x.v[i], s)
      [] OTHER -> FALSE

\* The last operation was a set() of the credential that returned True.
CredentialSet ==
    /\ lastOp.op = "set"
    /\ lastOp.section = "llm" /\ lastOp.key = "api_key"
    /\ lastOp.value.t = "str" /\ lastOp.value.v = Secret
    /\ lastOp.ok

\* C8: after any sequence of set and save_config calls, the in-memory config
\* and the config file hold neither the secret nor an llm.api_key entry; a
\* successful set of the credential leaves it in the keyring under the
\* current provider's name with llm.api_key_stored true.
C8_SecretStaysOutOfConfig ==
    config # Absent =>
        /\ ~Holds(config, Secret)
        /\ "llm" \in DOMAIN config.v => ~KeyIn(config.v.llm, "api_key")
        /\ configFile \notin {Absent, Corrupt} =>
             /\ ~Holds(JsonLoads(configFile), Secret)
             /\ JsonLoads(configFile).t = "dict" /\ "llm" \in DOMAIN JsonLoads(configFile).v
                   => ~KeyIn(JsonLoads(configFile).v.llm, "api_key")
        /\ CredentialSet =>
             /\ KeyringName(config) \in DOMAIN keyring
             /\ keyring[KeyringName(config)] = Secret
             /\ Get(config, "llm", "api_key_stored") = Bool(TRUE)

C8_Witness ==
    /\ CredentialSet
    /\ config # Absent
    /\ keyring = ("ollama_api_key" :> Secret)
    /\ config.v.llm.v.api_key_stored = Bool(TRUE)
    /\ ~Holds(config, Secret)
    /\ ~Holds(JsonLoads(configFile), Secret)

\* The last operation was a set() of an empty credential.
CredentialCleared ==
    /\ lastOp.op = "set"
    /\ lastOp.section = "llm" /\ lastOp.key = "api_key"
    /\ ~Truthy(lastOp.value)

\* The clear did what the claim says: no credential under the current
\* provider's name, the flag false, the call returned True.
ClearedState ==
    /\ KeyringName(config) \notin DOMAIN keyring
    /\ Get(config, "llm", "api_key_stored") = Bool(FALSE)
    /\ lastOp.ok

\* C16 as stated: set("llm", "api_key", <empty>) deletes the credential of the
\* current provider and leaves llm.api_key_stored false, and succeeds also
\* when none was stored.
C16_ClearAlways == CredentialCleared => ClearedState

\* C16: the same when the keyring backend serves the delete call or reports
\* that there is no such password.
C16_ClearDeletesCredential == (CredentialCleared /\ lastOp.ringOk) => ClearedState

\* A credential stored under the current provider's name was cleared.
C16_Witness ==
    /\ CredentialCleared /\ lastOp.ringOk /\ lastOp.had
    /\ ClearedState

\* The templates the config holds
TemplatesOf(cfg) ==
    IF "templates" \in DOMAIN cfg.v /\ cfg.v.templates.t = "dict"
    THEN cfg.v.templates.v ELSE <<>>

\* C28: deleting a template that the config holds removes that template and
\* nothing else: every other template and every section of the config is
\* as before, in memory and in the file.
C28_DeleteRemovesOnlyTemplate ==
    [][\A name \in TemplateNames :
          (DeleteTemplateCall(name) /\ name \in DOMAIN TemplatesOf(config)) =>
              /\ DOMAIN DefaultStructure \subseteq DOMAIN config'.v
              /\ DOMAIN TemplatesOf(config') = DOMAIN TemplatesOf(config) \ {name}
              /\ \A n \in DOMAIN TemplatesOf(config') :
                    TemplatesOf(config')[n] = TemplatesOf(config)[n]
              /\ \A section \in DOMAIN config.v \ {"templates"} :
                    /\ section \in DOMAIN config'.v
                    /\ config'.v[section] = config.v[section]
              /\ configFile' = JsonDumps(config')]_vars

\* The flag says what the keyring holds for the configured provider.
FlagMatchesKeyring ==
    Truthy(Get(config, "llm", "api_key_stored")) <=> KeyringName(config) \in DOMAIN keyring

\* C29: a set("llm", "provider", p) made when llm.api_key_stored says what
\* the keyring holds for the configured provider leaves it saying so.
C29_FlagFollowsProvider ==
    [][(/\ config # Absent /\ FlagMatchesKeyring
        /\ lastOp'.op = "set" /\ lastOp'.section = "llm" /\ lastOp'.key = "provider")
       => FlagMatchesKeyring']_vars

\* The llm settings the connection test writes
TestedSettings == {"provider", "model", "ollama_base_url", "ollama_model", "api_key_stored"}

\* C30: the connection test leaves every llm setting of the in-memory
\* config at the value it had before the call.
C30_TestLeavesSettings ==
    [][\A form \in Forms, ringOk \in BOOLEAN :
          TestConnectionCall(form, ringOk) =>
              \A k \in TestedSettings : Get(config', "llm", k) = Get(config, "llm", k)]_vars

====
